---- MODULE Spec2Model ----
(***************************************************************************)
(* A model of pm-cli's store (projects, tasks and time entries in SQLite,  *)
(* with its constraints and cascades), of the task, project and time       *)
(* tracking services on top of it, and of the terminal UI: the root model, *)
(* its sub-models, the commands it issues and the messages it receives.    *)
(*                                                                         *)
(* Spec         time tracking commands, one service call at a time         *)
(* SpecStore    projects, task trees and their deletion                    *)
(* SpecTask     task statuses, completion times and the task tree          *)
(* SpecConc     two processes whose time tracking calls interleave         *)
(* SpecProject  two processes whose project calls interleave               *)
(* SpecRace     a time tracking call and a task deletion that interleave   *)
(* SpecRevise   the user emptying and retyping inputs of the task form     *)
(* SpecStatus   projects going through their statuses                      *)
(* SpecEdit     the user editing a task in the task form                   *)
(* SpecToggle   the user toggling the status of a task and going back      *)
(* SpecMove     the user moving the selection of the menu and the lists    *)
(* SpecOpen     the user opening the tasks of a project                    *)
(* SpecDetail   the user toggling a task in the detail view, saves failing *)
(* SpecFault    time tracking on a storage whose queries may fail          *)
(* SpecRehome   tasks with time entries moved between projects             *)
(* SpecTags     tasks created with tags and a priority, and their tags     *)
(* SpecReport   time tracking commands and the time report                 *)
(* SpecTUI      the terminal UI, moving between its views                  *)
(* SpecForm     the terminal UI, filling in and submitting the task form   *)
(* SpecList     the terminal UI, working on the task of the list           *)
(* SpecLive     the terminal UI under fair scheduling, until the user quits*)
(***************************************************************************)
EXTENDS Integers, Sequences, FiniteSets, Bags, TLC

\* ---------------------------------------------------------------- bounds
\* The clock runs from 0 to MaxTime; at most MaxEntries time entries are ever created.
MaxTime == 2
MaxEntries == 2
\* The title input holds at most MaxTitle pieces of text; at most MaxCmds commands and
\* messages are in flight once the terminal UI has handled something.
MaxTitle == 1
MaxCmds == 2

\* Go's nil pointer / SQL NULL for timestamps, durations and the parent id.
Nil == -1
\* Go's empty string for ids ("no project", "no task id given").
NoId == 0

\* The fields the model's records have: every record of the model lists its fields in
\* this order.
ZeroValue ==
    [action |-> 0, activeTimeEntry |-> 0, archivedAt |-> 0, branch |-> 0, byDay |-> 0,
     byProject |-> 0, byTask |-> 0, changelist |-> 0, changelistInput |-> 0, cmds |-> 0,
     completedAt |-> 0, createdAt |-> 0, currentView |-> 0, dashboard |-> 0,
     description |-> 0, descriptionInput |-> 0, dueDate |-> 0, dueDateInput |-> 0,
     duration |-> 0, end |-> 0, endDate |-> 0, entries |-> 0, entry |-> 0, err |-> 0,
     error |-> 0, focusedField |-> 0, fresh |-> 0, hasNote |-> 0, heap |-> 0, id |-> 0,
     in |-> 0, isEditing |-> 0, key |-> 0, kind |-> 0, loc |-> 0, model |-> 0, msg |-> 0,
     name |-> 0, nextId |-> 0, noteID |-> 0, notePath |-> 0, op |-> 0, parentID |-> 0,
     pc |-> 0, priority |-> 0, project |-> 0, projectID |-> 0, projectList |-> 0,
     projects |-> 0, ref |-> 0, selectedIndex |-> 0, selectedProject |-> 0,
     selectedTask |-> 0, start |-> 0, startDate |-> 0, status |-> 0, store |-> 0,
     success |-> 0, tag |-> 0, tags |-> 0, tagsInput |-> 0, task |-> 0, taskDetail |-> 0,
     taskForm |-> 0, taskID |-> 0, taskList |-> 0, tasks |-> 0, text |-> 0, title |-> 0,
     titleInput |-> 0, total |-> 0]

\* The ids the tasks and the projects ever created get, in this order.
TaskIds == {1, 2}
ProjIds == {1, 2}
Names == {"Web", "Ops"}
Procs == {"p1", "p2"}

StatusBacklog == "backlog"
StatusTodo == "todo"
StatusDoing == "doing"
StatusDone == "done"
StatusBlocked == "blocked"
TaskStatuses == {StatusBacklog, StatusTodo, StatusDoing, StatusDone, StatusBlocked}

\* ---------------------------------------------------------------- errors
\* An error is the chain of its wrappers, outermost first (fmt.Errorf "%w").
NoErr == <<>>
ErrTaskNotFound == "task not found"
ErrProjectNotFound == "project not found"
ErrTimeEntryNotFound == "time entry not found"
ErrEmptyTitle == "title cannot be empty"
ErrEmptyName == "name cannot be empty"
ErrDuplicateProject == "project with this name already exists"
ErrActiveTimeEntry == "there is already an active time entry"
ErrNoActiveTimeEntry == "no active time entry found"
ErrCircularDependency == "circular dependency detected"
ErrInvalidTaskID == "invalid task ID"
ErrCouldNotParseDate == "could not parse date"
ErrNoteNotFound == "note not found"
ErrNoLinkedNote == "task does not have a linked note"
ErrInvalidProjectID == "invalid project ID"
\* The driver's constraint failures.
SqlForeignKey == "FOREIGN KEY constraint failed"
SqlNotNull == "NOT NULL constraint failed"

Err(e) == <<e>>
\* Mutant: the cause is formatted into the message (%v), not wrapped.
WrapWithoutCause(msg, err) == <<msg>>
Wrap(msg, err) == <<msg>> \o err
\* errors.Is: the target is somewhere in the chain.
ErrorsIs(err, target) == \E i \in 1..Len(err) : err[i] = target

\* ---------------------------------------------------------------- state
VARIABLES
    schemaVersion,  \* which migrations file created the store (3 or 5)
    now,            \* the wall clock read by time.Now()
    projects,       \* projects table: id -> row
    tasks,          \* tasks table: id -> row
    entries,        \* time_entries table: id -> row
    nextId,         \* fresh ids handed out so far, per table (uuid.New never repeats)
    last,           \* the last command's service call, as it returned
    report,         \* the TimeReport the last command got, if it asked for one
    app,            \* the TUI's AppModel
    heap,           \* the task objects the TUI holds pointers to
    cmds,           \* the TUI's commands not yet run and messages not yet received
    running,        \* the TUI program has not quit
    calls           \* each process's service call in progress

vars ==
    <<schemaVersion, now, projects, tasks, entries, nextId, last, report, calls, app, heap,
      cmds, running>>

tuiVars == <<app, heap, cmds, running>>

\* The store as one value, so that repository calls are functions of it.
Store == [entries |-> entries, nextId |-> nextId, projects |-> projects, tasks |-> tasks]

\* ------------------------------------------------- domain: tasks (task.go)
\* domain.Task
\* A text is the sequence of its pieces: a space, or a run of other runes.
Space == " "
NoText == <<>>
FixLogin == <<"Fix", Space, "login">>

\* strings.Index: where the piece first is in the text, 0 if nowhere.
Index(text, piece) ==
    IF \E i \in DOMAIN text : text[i] = piece
    THEN CHOOSE i \in DOMAIN text : text[i] = piece /\ \A j \in 1..(i - 1) : text[j] # piece
    ELSE 0

\* strings.Split
RECURSIVE Split(_, _)
Split(text, sep) ==
    LET i == Index(text, sep)
    IN  IF i = 0 THEN <<text>>
        ELSE <<SubSeq(text, 1, i - 1)>> \o Split(SubSeq(text, i + 1, Len(text)), sep)

\* strings.Join
RECURSIVE Join(_, _)
Join(list, sep) ==
    IF list = <<>> THEN NoText
    ELSE IF Len(list) = 1 THEN list[1]
    ELSE list[1] \o sep \o Join(Tail(list), sep)

\* A field of a Go struct literal: the zero value when the literal leaves it out.
Field(in, name, zero) == IF name \in DOMAIN in THEN in[name] ELSE zero

\* A Go pointer argument: None is nil, Some(x) points to x.
None == <<>>
Some(x) == <<x>>
IsSome(p) == Len(p) = 1
Val(p) == p[1]

\* Priority
PriorityLow == 0
PriorityNormal == 1
PriorityHigh == 2
PriorityCritical == 3

\* A task with the zero value in every field the arguments do not give. UpdatedAt,
\* Metadata and the workspace, which no statement of the model reads, are left out.
Task(id, title, status, completedAt, projectID, parentID) ==
    [changelist |-> NoText, completedAt |-> completedAt, createdAt |-> 0,
     description |-> NoText, dueDate |-> Nil, hasNote |-> FALSE, id |-> id,
     noteID |-> None, notePath |-> None, parentID |-> parentID, priority |-> PriorityLow,
     projectID |-> projectID, status |-> status, tags |-> <<>>, title |-> title]

\* NewTask, called at time t with the id uuid.New gives; the callers pass the
\* description they have.
NewTask(id, title, t) ==
    [Task(id, title, StatusTodo, Nil, NoId, Nil) EXCEPT
        !.priority = PriorityNormal, !.createdAt = t]

\* Task.AddTag
AddTag(task, tag) ==
    IF \E i \in DOMAIN task.tags : task.tags[i] = tag
    THEN task
    ELSE [task EXCEPT !.tags = Append(@, tag)]

\* Task.RemoveTag: the first tag equal to the one given goes.
RemoveTag(task, tag) ==
    IF \E i \in DOMAIN task.tags : task.tags[i] = tag
    THEN LET i == CHOOSE j \in DOMAIN task.tags :
                      task.tags[j] = tag /\ \A k \in 1..(j - 1) : task.tags[k] # tag
         IN  [task EXCEPT !.tags = SubSeq(@, 1, i - 1) \o SubSeq(@, i + 1, Len(@))]
    ELSE task

TaskComplete(task, t) == [task EXCEPT !.status = StatusDone, !.completedAt = t]

\* Mutant: Start leaves the status alone.
TaskStartKeepsStatus(task) == task
TaskStart(task) == [task EXCEPT !.status = StatusDoing]

TaskBlock(task) == [task EXCEPT !.status = StatusBlocked]

\* ------------------------------------------ domain: time entries, projects
\* domain.TimeEntry
NewTimeEntry(id, taskID, projectID, t) ==
    [duration |-> 0, end |-> Nil, id |-> id, projectID |-> projectID,
     start |-> t, taskID |-> taskID]

\* Mutant: Stop sets the end time only.
TimeEntryStopWithoutDuration(entry, t) == [entry EXCEPT !.end = t]
TimeEntryStop(entry, t) == [entry EXCEPT !.end = t, !.duration = t - entry.start]

IsActive(entry) == entry.end = Nil

\* ------------------------------------------- domain: projects (project.go)
ProjectStatusActive == "active"
ProjectStatusArchived == "archived"
ProjectStatusCompleted == "completed"
ProjectStatusOnHold == "on_hold"
ProjectStatuses ==
    {ProjectStatusActive, ProjectStatusArchived, ProjectStatusCompleted, ProjectStatusOnHold}

\* domain.Project
NewProject(id, name) ==
    [archivedAt |-> Nil, id |-> id, name |-> name, status |-> ProjectStatusActive]

ProjectArchive(project, t) ==
    [project EXCEPT !.status = ProjectStatusArchived, !.archivedAt = t]
ProjectComplete(project) == [project EXCEPT !.status = ProjectStatusCompleted]
ProjectActivate(project) == [project EXCEPT !.status = ProjectStatusActive, !.archivedAt = Nil]
ProjectPutOnHold(project) == [project EXCEPT !.status = ProjectStatusOnHold]

\* ------------------------------------------------------- schema (SQLite)
\* "Convert empty project_id to NULL": the project_id column of a Go string.
ProjectIDColumn(projectID) == IF projectID # NoId THEN projectID ELSE Nil

\* scanTask / scanTimeEntry: sql.NullString back to a Go string.
ScanProjectID(col) == IF col # Nil THEN col ELSE NoId

\* The duration column: NULL unless the duration is positive.
DurationColumn(d) == IF d > 0 THEN d ELSE Nil

\* scanTimeEntry: sql.NullInt64 back to a time.Duration.
ScanDuration(col) == IF col # Nil THEN col ELSE 0

\* time_entries.project_id is NOT NULL in schema version 3, nullable from version 4 on.
TimeEntryProjectNotNull(sv) == sv < 4

\* FOREIGN KEY (project_id) REFERENCES projects(id)
ProjectFK(S, col) == col = Nil \/ col \in DOMAIN S.projects

\* FOREIGN KEY (parent_id) REFERENCES tasks(id); T is the tasks table after the write.
ParentFK(T, col) == col = Nil \/ col \in DOMAIN T

\* ON DELETE CASCADE on tasks.parent_id: every task below a deleted task goes too.
RECURSIVE CascadeTasks(_, _)
CascadeTasks(T, del) ==
    LET more == {x \in DOMAIN T \ del : T[x].parentID \in del}
    IN  IF more = {} THEN del ELSE CascadeTasks(T, del \cup more)

\* ON DELETE CASCADE on time_entries.task_id and time_entries.project_id.
CascadeEntries(E, delTasks, delProjects) ==
    {e \in DOMAIN E : E[e].taskID \in delTasks \/ E[e].projectID \in delProjects}

Restrict(f, keep) == [x \in keep |-> f[x]]

\* The rows left after the projects in delProjects and the tasks in delTasks are deleted.
DeleteCascade(S, delProjects, delTasks) ==
    LET byProject == {x \in DOMAIN S.tasks : S.tasks[x].projectID \in delProjects}
        gone == CascadeTasks(S.tasks, delTasks \cup byProject)
        goneE == CascadeEntries(S.entries, gone, delProjects)
    IN  [S EXCEPT !.projects = Restrict(S.projects, DOMAIN S.projects \ delProjects),
                  !.tasks = Restrict(S.tasks, DOMAIN S.tasks \ gone),
                  !.entries = Restrict(S.entries, DOMAIN S.entries \ goneE)]

\* A repository call's result: its error and the store it leaves.
Ok(S) == [err |-> NoErr, store |-> S]
Fail(err, S) == [err |-> err, store |-> S]

\* ---------------------------------------- TaskRepository (task_repository.go)
Quote == "\""

\* json.Marshal of a []string (nil and the empty slice are one value here).
MarshalTags(tags) ==
    <<"[">> \o Join([i \in DOMAIN tags |-> <<Quote>> \o tags[i] \o <<Quote>>], <<",">>)
        \o <<"]">>

\* json.Unmarshal into a []string: the texts between the quotes.
RECURSIVE UnmarshalTags(_)
UnmarshalTags(json) ==
    LET open == Index(json, Quote)
        rest == SubSeq(json, open + 1, Len(json))
        close == Index(rest, Quote)
    IN  IF open = 0 \/ close = 0 THEN <<>>
        ELSE <<SubSeq(rest, 1, close - 1)>>
                \o UnmarshalTags(SubSeq(rest, close + 1, Len(rest)))

\* The values the INSERT and the UPDATE bind. No statement of the repository names the
\* columns note_id, note_path and has_note.
TaskRow(task) ==
    [changelist |-> task.changelist, completedAt |-> task.completedAt,
     createdAt |-> task.createdAt, description |-> task.description,
     dueDate |-> task.dueDate, parentID |-> task.parentID, priority |-> task.priority,
     projectID |-> ProjectIDColumn(task.projectID), status |-> task.status,
     tags |-> MarshalTags(task.tags), title |-> task.title]

\* scanTask: the note fields of the task it returns keep Go's zero values.
scanTask(id, row) ==
    [Task(id, row.title, row.status, row.completedAt, ScanProjectID(row.projectID),
          row.parentID) EXCEPT
        !.changelist = row.changelist, !.createdAt = row.createdAt,
        !.description = row.description, !.dueDate = row.dueDate,
        !.priority = row.priority, !.tags = UnmarshalTags(row.tags)]

TaskRepoCreate(S, task) ==
    LET row == TaskRow(task)
        T == (task.id :> row) @@ S.tasks
    IN  IF ProjectFK(S, row.projectID) /\ ParentFK(T, row.parentID)
        THEN Ok([S EXCEPT !.tasks = T])
        ELSE Fail(Wrap("failed to create task", Err(SqlForeignKey)), S)

TaskRepoGetByID(S, id) ==
    IF id \in DOMAIN S.tasks
    THEN [err |-> NoErr, task |-> scanTask(id, S.tasks[id])]
    ELSE [err |-> Err(ErrTaskNotFound), task |-> NewTask(NoId, NoText, 0)]

TaskRepoUpdate(S, task) ==
    LET row == TaskRow(task)
    IN  IF task.id \notin DOMAIN S.tasks THEN Fail(Err(ErrTaskNotFound), S)
        ELSE IF ProjectFK(S, row.projectID) /\ ParentFK(S.tasks, row.parentID)
        THEN \* created_at is no column of the UPDATE
             Ok([S EXCEPT !.tasks[task.id] = [row EXCEPT !.createdAt = S.tasks[task.id].createdAt]])
        ELSE Fail(Wrap("failed to update task", Err(SqlForeignKey)), S)

TaskRepoDelete(S, id) ==
    IF id \in DOMAIN S.tasks
    THEN Ok(DeleteCascade(S, {}, {id}))
    ELSE Fail(Err(ErrTaskNotFound), S)

\* ---------------------------------- ProjectRepository (project_repository.go)
\* Mutant: projects.name without UNIQUE.
UniqueNameUnchecked(P, id, name) == TRUE
\* name TEXT NOT NULL UNIQUE: no other row holds the name.
UniqueName(P, id, name) == \A q \in DOMAIN P \ {id} : P[q].name # name

ProjectRow(project) ==
    [archivedAt |-> project.archivedAt, name |-> project.name, status |-> project.status]

scanProject(id, row) ==
    [archivedAt |-> row.archivedAt, id |-> id, name |-> row.name, status |-> row.status]

ProjectRepoCreate(S, project) ==
    IF UniqueName(S.projects, project.id, project.name)
    THEN Ok([S EXCEPT !.projects = (project.id :> ProjectRow(project)) @@ S.projects])
    ELSE Fail(Err(ErrDuplicateProject), S)

ProjectRepoGetByID(S, id) ==
    IF id \in DOMAIN S.projects
    THEN [err |-> NoErr, project |-> scanProject(id, S.projects[id])]
    ELSE [err |-> Err(ErrProjectNotFound), project |-> NewProject(NoId, "")]

ProjectRepoGetByName(S, name) ==
    LET found == {q \in DOMAIN S.projects : S.projects[q].name = name}
    IN  IF found # {}
        THEN [err |-> NoErr, project |-> scanProject(CHOOSE q \in found : TRUE,
                                                     S.projects[CHOOSE q \in found : TRUE])]
        ELSE [err |-> Err(ErrProjectNotFound), project |-> NewProject(NoId, "")]

ProjectRepoUpdate(S, project) ==
    IF project.id \notin DOMAIN S.projects THEN Fail(Err(ErrProjectNotFound), S)
    ELSE IF UniqueName(S.projects, project.id, project.name)
    THEN Ok([S EXCEPT !.projects[project.id] = ProjectRow(project)])
    ELSE Fail(Err(ErrDuplicateProject), S)

ProjectRepoDelete(S, id) ==
    IF id \in DOMAIN S.projects
    THEN Ok(DeleteCascade(S, {id}, {}))
    ELSE Fail(Err(ErrProjectNotFound), S)

\* ------------------------------------ TimeEntryRepository (time entries)
TimeEntryRow(entry) ==
    [duration |-> DurationColumn(entry.duration), end |-> entry.end,
     projectID |-> ProjectIDColumn(entry.projectID), start |-> entry.start,
     taskID |-> entry.taskID]

scanTimeEntry(id, row) ==
    [duration |-> ScanDuration(row.duration), end |-> row.end, id |-> id,
     projectID |-> ScanProjectID(row.projectID), start |-> row.start,
     taskID |-> row.taskID]

\* The constraints of the time_entries table on a row written for an existing or new id.
TimeEntryConstraint(S, sv, row) ==
    IF TimeEntryProjectNotNull(sv) /\ row.projectID = Nil THEN Err(SqlNotNull)
    ELSE IF row.taskID \notin DOMAIN S.tasks \/ ~ProjectFK(S, row.projectID)
    THEN Err(SqlForeignKey)
    ELSE NoErr

TimeEntryRepoCreate(S, sv, entry) ==
    LET row == TimeEntryRow(entry)
        bad == TimeEntryConstraint(S, sv, row)
    IN  IF bad = NoErr
        THEN Ok([S EXCEPT !.entries = (entry.id :> row) @@ S.entries])
        ELSE Fail(Wrap("failed to create time entry", bad), S)

\* Mutant: the UPDATE without its WHERE clause.
TimeEntryRepoUpdateEveryRow(S, sv, entry) ==
    Ok([S EXCEPT !.entries = [e \in DOMAIN S.entries |-> TimeEntryRow(entry)]])
TimeEntryRepoUpdate(S, sv, entry) ==
    LET row == TimeEntryRow(entry)
        bad == TimeEntryConstraint(S, sv, row)
    IN  IF entry.id \notin DOMAIN S.entries THEN Fail(Err(ErrTimeEntryNotFound), S)
        ELSE IF bad = NoErr
        THEN Ok([S EXCEPT !.entries[entry.id] = row])
        ELSE Fail(Wrap("failed to update time entry", bad), S)

\* The rows "WHERE end_time IS NULL ORDER BY start_time DESC LIMIT 1" may return:
\* any active row with the latest start (SQLite does not order ties).
ActiveRows(S) ==
    {e \in DOMAIN S.entries :
        /\ S.entries[e].end = Nil
        /\ \A f \in DOMAIN S.entries :
              S.entries[f].end = Nil => S.entries[f].start <= S.entries[e].start}

NoEntry == NewTimeEntry(NoId, NoId, NoId, 0)

\* Mutant: the query finds no row.
TimeEntryRepoGetActiveNone(S) == {[entry |-> NoEntry, err |-> Err(ErrNoActiveTimeEntry)]}
\* The possible results of GetActive.
TimeEntryRepoGetActive(S) ==
    IF ActiveRows(S) = {}
    THEN {[entry |-> NoEntry, err |-> Err(ErrNoActiveTimeEntry)]}
    ELSE {[entry |-> scanTimeEntry(e, S.entries[e]), err |-> NoErr] : e \in ActiveRows(S)}

\* A failure of the storage under the query: the database is locked by another process.
ErrStorage == "database is locked"

StorageFailure ==
    [entry |-> NoEntry, err |-> Wrap("failed to get active time entry", Err(ErrStorage))]

\* The possible results of GetActive at position pc of a call: at "getActiveFaulty" the
\* storage may fail under the query.
GetActiveAt(S, pc) ==
    IF pc = "getActiveFaulty" THEN TimeEntryRepoGetActive(S) \cup {StorageFailure}
    ELSE TimeEntryRepoGetActive(S)

\* The rows TimeEntryRepository.List selects for a filter with StartAfter and EndBefore.
ListRows(S, startAfter, endBefore) ==
    {e \in DOMAIN S.entries :
        /\ IsSome(startAfter) => S.entries[e].start >= Val(startAfter)
        /\ IsSome(endBefore) => (S.entries[e].end = Nil \/ S.entries[e].end <= Val(endBefore))}

\* The lists "ORDER BY start_time DESC" may return: SQLite does not order ties.
TimeEntryRepoList(S, startAfter, endBefore) ==
    LET rows == ListRows(S, startAfter, endBefore)
        n == Cardinality(rows)
    IN  {list \in [1..n -> rows] :
            /\ \A i, j \in 1..n : i # j => list[i] # list[j]
            /\ \A i, j \in 1..n : i < j => S.entries[list[i]].start >= S.entries[list[j]].start}

\* ------------------------------------------------------------ service calls
NoTask == NewTask(NoId, NoText, 0)
NoProject == NewProject(NoId, "")

\* A service call in progress: its operation, input, position and local variables.
Call(op, in, first) ==
    [entry |-> NoEntry, err |-> NoErr, in |-> in, op |-> op, pc |-> first,
     project |-> NoProject, task |-> NoTask]

Idle == Call("none", [id |-> NoId], "done")

\* One outcome of a step: the store it leaves and the call's new locals.
Out(S, l) == [loc |-> l, store |-> S]
Return(S, l, err) == Out(S, [l EXCEPT !.pc = "done", !.err = err])
Goto(S, l, next) == Out(S, [l EXCEPT !.pc = next])

\* Service.StartTimeTracking after its query of the active entry gave r.
StartAfterGetActive(S, l, r) ==
    IF r.err = NoErr THEN Return(S, l, Err(ErrActiveTimeEntry)) ELSE Goto(S, l, "getTask")

\* Service.StartTimeTracking, one repository call per step.
StartTimeTrackingStep(S, sv, t, l) ==
    CASE l.pc \in {"getActive", "getActiveFaulty"} ->
            IF l.in.taskID = NoId THEN {Return(S, l, Err(ErrInvalidTaskID))}
            ELSE {StartAfterGetActive(S, l, r) : r \in GetActiveAt(S, l.pc)}
      [] l.pc = "getTask" ->
            LET r == TaskRepoGetByID(S, l.in.taskID)
            IN  IF r.err # NoErr
                THEN {Return(S, l, Wrap("failed to get task", r.err))}
                ELSE {Goto(S, [l EXCEPT !.task = r.task], "create")}
      [] l.pc = "create" ->
            LET entry == NewTimeEntry(S.nextId.entry, l.in.taskID, l.task.projectID, t)
                S1 == [S EXCEPT !.nextId.entry = @ + 1]
                r == TimeEntryRepoCreate(S1, sv, entry)
            IN  IF r.err # NoErr
                THEN {Return(S, l, Wrap("failed to create time entry", r.err))}
                ELSE IF l.task.status # StatusDoing
                THEN {Goto(r.store, [l EXCEPT !.entry = entry], "updateTask")}
                ELSE {Return(r.store, [l EXCEPT !.entry = entry], NoErr)}
      [] l.pc = "updateTask" ->
            LET task == TaskStart(l.task)
                r == TaskRepoUpdate(S, task)
            IN  \* a failed update is only printed as a warning
                {Return(r.store, [l EXCEPT !.task = task], NoErr)}

\* Service.StopTimeTracking
StopTimeTrackingStep(S, sv, t, l) ==
    CASE l.pc = "getActive" ->
            {IF r.err # NoErr
             THEN Return(S, l, Wrap("failed to get active time entry", r.err))
             ELSE Goto(S, [l EXCEPT !.entry = r.entry], "update")
               : r \in TimeEntryRepoGetActive(S)}
      [] l.pc = "update" ->
            LET entry == TimeEntryStop(l.entry, t)
                r == TimeEntryRepoUpdate(S, sv, entry)
            IN  IF r.err # NoErr
                THEN {Return(S, [l EXCEPT !.entry = entry],
                             Wrap("failed to update time entry", r.err))}
                ELSE {Return(r.store, [l EXCEPT !.entry = entry], NoErr)}

\* task.Service.CreateTask
\* Service.parseDueDate: what the natural-language date parser makes of the text is the
\* library's matter: a time of the clock, or an error.
parseDueDate(text) ==
    [err : {NoErr}, start : 0..MaxTime]
        \cup {[err |-> Err(ErrCouldNotParseDate), start |-> 0]}

CreateTaskStep(S, sv, t, l) ==
    CASE l.pc = "create" ->
            IF l.in.title = NoText THEN {Return(S, l, Err(ErrEmptyTitle))}
            ELSE LET dueText == Field(l.in, "dueDate", NoText)
                     \* the branch of the git repository the command runs in, if any
                     branch == Field(l.in, "branch", NoText)
                     created(due) ==
                         LET new == [NewTask(S.nextId.task, l.in.title, t) EXCEPT
                                        !.description = Field(l.in, "description", NoText),
                                        !.priority = Field(l.in, "priority", PriorityLow),
                                        !.projectID = l.in.projectID,
                                        !.parentID = l.in.parentID,
                                        !.tags = Field(l.in, "tags", <<>>),
                                        !.changelist = Field(l.in, "changelist", NoText),
                                        !.dueDate = due]
                             task == IF branch # NoText
                                     THEN AddTag(new, <<"branch:">> \o branch) ELSE new
                             r == TaskRepoCreate([S EXCEPT !.nextId.task = @ + 1], task)
                         IN  IF r.err # NoErr
                             THEN Return(S, l, Wrap("failed to create task", r.err))
                             ELSE Return(r.store, [l EXCEPT !.task = task], NoErr)
                 IN  IF dueText = NoText THEN {created(Nil)}
                     ELSE {IF d.err # NoErr
                           THEN Return(S, l, Wrap("invalid due date format", d.err))
                           ELSE created(d.start) : d \in parseDueDate(dueText)}

\* The field assignments of task.Service.UpdateTask between its read and its write.
UpdateTaskFields(task, in, t) ==
    LET t1 == IF IsSome(in.status)
              THEN [task EXCEPT !.status = Val(in.status),
                                !.completedAt = IF Val(in.status) = StatusDone THEN t ELSE Nil]
              ELSE task
        t2 == IF IsSome(in.projectID) THEN [t1 EXCEPT !.projectID = Val(in.projectID)] ELSE t1
        t3 == IF IsSome(in.parentID) THEN [t2 EXCEPT !.parentID = Val(in.parentID)] ELSE t2
        title == Field(in, "title", None)
        priority == Field(in, "priority", None)
        tagList == Field(in, "tags", None)
        t4 == IF IsSome(title) THEN [t3 EXCEPT !.title = Val(title)] ELSE t3
        t5 == IF IsSome(priority) THEN [t4 EXCEPT !.priority = Val(priority)] ELSE t4
        t6 == IF IsSome(tagList) THEN [t5 EXCEPT !.tags = Val(tagList)] ELSE t5
    IN  t6

\* task.Service.UpdateTask
UpdateTaskStep(S, sv, t, l) ==
    CASE l.pc = "getByID" ->
            IF l.in.id = NoId THEN {Return(S, l, Err(ErrInvalidTaskID))}
            ELSE LET r == TaskRepoGetByID(S, l.in.id)
                 IN  IF r.err # NoErr
                     THEN {Return(S, l, Wrap("failed to get task for update", r.err))}
                     ELSE IF Field(l.in, "title", None) = Some(NoText)
                     THEN {Return(S, l, Err(ErrEmptyTitle))}
                     ELSE {Goto(S, [l EXCEPT !.task = UpdateTaskFields(r.task, l.in, t)],
                                "update")}
      [] l.pc = "update" ->
            LET r == TaskRepoUpdate(S, l.task)
            IN  IF r.err # NoErr
                THEN {Return(S, l, Wrap("failed to update task", r.err))}
                ELSE {Return(r.store, l, NoErr)}

\* task.Service.AddTag and task.Service.RemoveTag
TagStep(S, sv, t, l) ==
    CASE l.pc = "getByID" ->
            LET r == TaskRepoGetByID(S, l.in.id)
            IN  IF r.err # NoErr
                THEN {Return(S, l, Wrap("failed to get task", r.err))}
                ELSE {Goto(S, [l EXCEPT !.task = IF l.op = "AddTag"
                                                 THEN AddTag(r.task, l.in.tag)
                                                 ELSE RemoveTag(r.task, l.in.tag)],
                           "update")}
      [] l.pc = "update" ->
            LET r == TaskRepoUpdate(S, l.task)
            IN  IF r.err # NoErr
                THEN {Return(S, l, Wrap("failed to update task", r.err))}
                ELSE {Return(r.store, l, NoErr)}

\* task.Service.DeleteTask
DeleteTaskStep(S, sv, t, l) ==
    CASE l.pc = "delete" ->
            IF l.in.id = NoId THEN {Return(S, l, Err(ErrInvalidTaskID))}
            ELSE LET r == TaskRepoDelete(S, l.in.id)
                 IN  IF r.err # NoErr
                     THEN {Return(S, l, Wrap("failed to delete task", r.err))}
                     ELSE {Return(r.store, l, NoErr)}

\* project.Service.CreateProject
CreateProjectStep(S, sv, t, l) ==
    CASE l.pc = "getByName" ->
            IF l.in.name = "" THEN {Return(S, l, Err(ErrEmptyName))}
            ELSE IF ProjectRepoGetByName(S, l.in.name).err = NoErr
            THEN {Return(S, l, Err(ErrDuplicateProject))}
            ELSE {Goto(S, l, "create")}
      [] l.pc = "create" ->
            LET project == NewProject(S.nextId.project, l.in.name)
                r == ProjectRepoCreate([S EXCEPT !.nextId.project = @ + 1], project)
            IN  IF r.err # NoErr
                THEN {Return(S, l, Wrap("failed to create project", r.err))}
                ELSE {Return(r.store, [l EXCEPT !.project = project], NoErr)}

\* The status switch of project.Service.UpdateProject between its read and its write.
UpdateProjectStatus(project, status, t) ==
    IF ~IsSome(status) THEN project
    ELSE LET p == [project EXCEPT !.status = Val(status)]
         IN  CASE Val(status) = ProjectStatusArchived -> ProjectArchive(p, t)
               [] Val(status) = ProjectStatusCompleted -> ProjectComplete(p)
               [] Val(status) = ProjectStatusActive -> ProjectActivate(p)
               [] Val(status) = ProjectStatusOnHold -> ProjectPutOnHold(p)
               [] OTHER -> p

\* project.Service.UpdateProject
UpdateProjectStep(S, sv, t, l) ==
    CASE l.pc = "getByID" ->
            IF l.in.id = NoId THEN {Return(S, l, Err(ErrInvalidProjectID))}
            ELSE LET r == ProjectRepoGetByID(S, l.in.id)
                 IN  IF r.err # NoErr
                     THEN {Return(S, l, Wrap("failed to get project for update", r.err))}
                     ELSE IF ~IsSome(l.in.name)
                     THEN {Goto(S, [l EXCEPT !.project = r.project], "update")}
                     ELSE IF Val(l.in.name) = ""
                     THEN {Return(S, l, Err(ErrEmptyName))}
                     ELSE {Goto(S, [l EXCEPT !.project = r.project], "getByName")}
      [] l.pc = "getByName" ->
            LET r == ProjectRepoGetByName(S, Val(l.in.name))
            IN  IF r.err = NoErr /\ r.project.id # l.project.id
                THEN {Return(S, l, Err(ErrDuplicateProject))}
                ELSE {Goto(S, [l EXCEPT !.project.name = Val(l.in.name)], "update")}
      [] l.pc = "update" ->
            LET project == UpdateProjectStatus(l.project, l.in.status, t)
                r == ProjectRepoUpdate(S, project)
            IN  IF r.err # NoErr
                THEN {Return(S, l, Wrap("failed to update project", r.err))}
                ELSE {Return(r.store, [l EXCEPT !.project = project], NoErr)}

\* project.Service.DeleteProject
DeleteProjectStep(S, sv, t, l) ==
    CASE l.pc = "delete" ->
            IF l.in.id = NoId THEN {Return(S, l, Err(ErrInvalidProjectID))}
            ELSE LET r == ProjectRepoDelete(S, l.in.id)
                 IN  IF r.err # NoErr
                     THEN {Return(S, l, Wrap("failed to delete project", r.err))}
                     ELSE {Return(r.store, l, NoErr)}

\* One step of whichever service call l is.
\* notes.FindNoteByID: the path of the note file with this id, when there is one.
NotePath(noteID) == <<"notes/", noteID, ".md">>

\* linkTaskNote and unlinkTaskNote of the task note command.
NoteStep(S, sv, t, l) ==
    CASE l.pc = "getByID" ->
            LET r == TaskRepoGetByID(S, l.in.id)
            IN  IF r.err # NoErr
                THEN {Return(S, l, Wrap("failed to get task", r.err))}
                ELSE IF l.op = "LinkNote"
                THEN {Return(S, l, Wrap("failed to find note", Err(ErrNoteNotFound))),
                      Goto(S, [l EXCEPT !.task = [r.task EXCEPT
                                    !.hasNote = TRUE, !.noteID = Some(l.in.noteID),
                                    !.notePath = Some(NotePath(l.in.noteID))]],
                           "update")}
                ELSE IF ~r.task.hasNote
                THEN {Return(S, l, Err(ErrNoLinkedNote))}
                ELSE {Goto(S, [l EXCEPT !.task = [r.task EXCEPT
                                    !.hasNote = FALSE, !.noteID = None,
                                    !.notePath = None]],
                           "update")}
      [] l.pc = "update" ->
            LET r == TaskRepoUpdate(S, l.task)
            IN  IF r.err # NoErr
                THEN {Return(S, l, Wrap("failed to update task", r.err))}
                ELSE {Return(r.store, l, NoErr)}

Step(S, sv, t, l) ==
    CASE l.op = "StartTimeTracking" -> StartTimeTrackingStep(S, sv, t, l)
      [] l.op = "StopTimeTracking" -> StopTimeTrackingStep(S, sv, t, l)
      [] l.op = "CreateTask" -> CreateTaskStep(S, sv, t, l)
      [] l.op = "UpdateTask" -> UpdateTaskStep(S, sv, t, l)
      [] l.op = "DeleteTask" -> DeleteTaskStep(S, sv, t, l)
      [] l.op \in {"AddTag", "RemoveTag"} -> TagStep(S, sv, t, l)
      [] l.op \in {"LinkNote", "UnlinkNote"} -> NoteStep(S, sv, t, l)
      [] l.op = "CreateProject" -> CreateProjectStep(S, sv, t, l)
      [] l.op = "UpdateProject" -> UpdateProjectStep(S, sv, t, l)
      [] l.op = "DeleteProject" -> DeleteProjectStep(S, sv, t, l)

\* The outcomes of running a call to its return with no other call in between.
RECURSIVE Run(_, _, _, _)
Run(S, sv, t, l) ==
    IF l.pc = "done" THEN {Out(S, l)}
    ELSE UNION {Run(o.store, sv, t, o.loc) : o \in Step(S, sv, t, l)}

\* ------------------------------------------------------------------ inputs
StartInputs == {[taskID |-> x] : x \in {NoId} \cup TaskIds}

\* CreateTask with any project and no parent / with any project and any parent.
TopLevelTasks ==
    {[parentID |-> Nil, projectID |-> p, title |-> ti] :
        ti \in {NoText, FixLogin}, p \in {NoId} \cup ProjIds}
\* CreateTask in the first project.
ProjectTasks == {[parentID |-> Nil, projectID |-> 1, title |-> FixLogin]}
AnyTasks ==
    {[parentID |-> q, projectID |-> p, title |-> FixLogin] :
        p \in {NoId} \cup ProjIds, q \in {Nil} \cup TaskIds}

\* UpdateTask of the status alone (CompleteTask, StartTask, BlockTask, update --status).
StatusUpdates ==
    {[id |-> x, parentID |-> None, projectID |-> None, status |-> Some(st)] :
        x \in {NoId} \cup TaskIds, st \in TaskStatuses}
\* UpdateTask of the parent alone.
ParentUpdates ==
    {[id |-> x, parentID |-> q, projectID |-> None, status |-> None] :
        x \in TaskIds, q \in {None} \cup {Some(v) : v \in TaskIds}}

\* CreateTask of a task with no project and no parent.
OneTask == {[parentID |-> Nil, projectID |-> NoId, title |-> FixLogin]}

IdInputs(ids) == {[id |-> x] : x \in {NoId} \cup ids}
CreateProjectInputs == {[name |-> n] : n \in {""} \cup Names}
OneProject == {[name |-> "Web"]}
UpdateProjectInputs ==
    {[id |-> x, name |-> n, status |-> None] :
        x \in {NoId} \cup ProjIds, n \in {None} \cup {Some(v) : v \in {""} \cup Names}}
\* UpdateProject of the status alone (ArchiveProject, CompleteProject, ActivateProject,
\* PutProjectOnHold).
ProjectStatusUpdates ==
    {[id |-> x, name |-> None, status |-> Some(st)] : x \in ProjIds, st \in ProjectStatuses}

\* ---------------------------------------------------------------- reports
\* The length of a calendar day in the model's time unit.
DayLength == 2

\* The key of the day an entry started on: StartTime.Format("2006-01-02").
DayKey(entry) == entry.start \div DayLength

\* TimeEntry.GetDuration at time t: the persisted duration of an ended entry, the time
\* since its start for a running one.
GetDuration(entry, t) == IF entry.end # Nil THEN entry.duration ELSE t - entry.start

\* A report with no entry.
NoReport ==
    [byDay |-> <<>>, byProject |-> <<>>, byTask |-> <<>>, entries |-> <<>>, total |-> 0]

\* Mutant: an entry joining an existing group does not add its duration.
AddToGroupWithoutDuration(groups, key, id, d) ==
    IF key \in DOMAIN groups
    THEN [groups EXCEPT ![key] = [entries |-> Append(@.entries, id), total |-> @.total]]
    ELSE [k \in DOMAIN groups \cup {key} |->
            IF k = key THEN [entries |-> <<id>>, total |-> d] ELSE groups[k]]
\* One grouping's map after an entry of duration d was put under its key.
AddToGroup(groups, key, id, d) ==
    IF key \in DOMAIN groups
    THEN [groups EXCEPT ![key] = [entries |-> Append(@.entries, id), total |-> @.total + d]]
    ELSE [k \in DOMAIN groups \cup {key} |->
            IF k = key THEN [entries |-> <<id>>, total |-> d] ELSE groups[k]]

\* The loop of GenerateReport over the listed entries from the i-th on.
RECURSIVE ReportFold(_, _, _, _, _)
ReportFold(S, t, list, i, r) ==
    IF i > Len(list)
    THEN r
    ELSE LET entry == scanTimeEntry(list[i], S.entries[list[i]])
             duration == GetDuration(entry, t)
         IN  ReportFold(S, t, list, i + 1,
                 [byDay |-> AddToGroup(r.byDay, DayKey(entry), entry.id, duration),
                  byProject |-> AddToGroup(r.byProject, entry.projectID, entry.id, duration),
                  byTask |-> AddToGroup(r.byTask, entry.taskID, entry.id, duration),
                  entries |-> r.entries,
                  total |-> r.total + duration])

\* The reports Service.GenerateReport can return at time t for the window.
GenerateReportOf(S, t, startDate, endDate) ==
    {ReportFold(S, t, list, 1, [NoReport EXCEPT !.entries = list]) :
        list \in TimeEntryRepoList(S, Some(startDate), Some(endDate))}

\* The windows the report command is asked for.
Windows == {[endDate |-> b, startDate |-> a] : a \in 0..MaxTime, b \in 0..(MaxTime + 1)}

\* ------------------------------------------------------------- terminal UI
\* strings.TrimSpace
RECURSIVE TrimLeft(_)
TrimLeft(text) ==
    IF text # NoText /\ Head(text) = Space THEN TrimLeft(Tail(text)) ELSE text

RECURSIVE TrimRight(_)
TrimRight(text) ==
    IF text # NoText /\ text[Len(text)] = Space
    THEN TrimRight(SubSeq(text, 1, Len(text) - 1))
    ELSE text

TrimSpace(text) == TrimRight(TrimLeft(text))

\* ViewState
TaskListView == "TaskListView"
TaskDetailView == "TaskDetailView"
TaskFormView == "TaskFormView"
ProjectListView == "ProjectListView"
ProjectFormView == "ProjectFormView"
TimeTrackingView == "TimeTrackingView"
DashboardView == "DashboardView"
HelpView == "HelpView"
ViewStates ==
    {TaskListView, TaskDetailView, TaskFormView, ProjectListView, ProjectFormView,
     TimeTrackingView, DashboardView, HelpView}

\* The keys of DefaultKeyMap and of the sub-models' key maps.
QuitKeys == {"q", "ctrl+c"}
HelpKeys == {"?"}
BackKeys == {"esc"}
RefreshKeys == {"r"}
UpKeys == {"up", "k"}
DownKeys == {"down", "j"}
EnterKeys == {"enter"}
NewKeys == {"n"}
EditKeys == {"e"}
DeleteKeys == {"d"}
ToggleKeys == {"t"}
SubmitKeys == {"ctrl+s"}
NextKeys == {"tab"}
PrevKeys == {"shift+tab"}
\* The key of a text input that deletes everything before the cursor.
ClearKeys == {"ctrl+u"}
\* The keys that stand for a rune a text input inserts.
RuneKeys == {"a", Space, "q", "?", "r", "k", "j", "n", "e", "d", "t"}

\* A message or a command of the program: every kind has the same fields, the ones it
\* does not use left at their zero value. A task is carried by reference.
NoItem ==
    [action |-> "", id |-> NoId, key |-> "", kind |-> "", projects |-> <<>>, ref |-> Nil,
     tasks |-> <<>>, text |-> NoText]

KeyMsg(k) == [NoItem EXCEPT !.kind = "KeyMsg", !.key = k]
QuitMsg == [NoItem EXCEPT !.kind = "QuitMsg"]
ErrorMsg(text) == [NoItem EXCEPT !.kind = "ErrorMsg", !.text = text]
SuccessMsg(text) == [NoItem EXCEPT !.kind = "SuccessMsg", !.text = text]
ActiveTimeEntryMsg == [NoItem EXCEPT !.kind = "ActiveTimeEntryMsg"]
DashboardActionMsg(action) == [NoItem EXCEPT !.kind = "DashboardActionMsg", !.action = action]
TaskActionMsg(action, ref) ==
    [NoItem EXCEPT !.kind = "TaskActionMsg", !.action = action, !.ref = ref]
TaskFormSubmitMsg(ref) == [NoItem EXCEPT !.kind = "TaskFormSubmitMsg", !.ref = ref]
TaskFormCancelMsg == [NoItem EXCEPT !.kind = "TaskFormCancelMsg"]
TaskListLoadedMsg(list) == [NoItem EXCEPT !.kind = "TaskListLoadedMsg", !.tasks = list]
ProjectListLoadedMsg(list) ==
    [NoItem EXCEPT !.kind = "ProjectListLoadedMsg", !.projects = list]
ProjectActionMsg(action, project) ==
    [NoItem EXCEPT !.kind = "ProjectActionMsg", !.action = action, !.projects = project]

\* The commands of AppModel: the work a goroutine does before it sends its message.
loadActiveTimeEntry == [NoItem EXCEPT !.kind = "loadActiveTimeEntry"]
loadTasks == [NoItem EXCEPT !.kind = "loadTasks"]
loadTasksForProject(projectID) == [NoItem EXCEPT !.kind = "loadTasks", !.id = projectID]
loadProjects == [NoItem EXCEPT !.kind = "loadProjects"]
\* Mutant: the command built for a save is a delete.
saveTaskDeletes(ref) == [NoItem EXCEPT !.kind = "deleteTask", !.ref = ref]
saveTask(ref) == [NoItem EXCEPT !.kind = "saveTask", !.ref = ref]
\* Mutant: the command built for a delete is a save.
deleteTaskSaves(ref) == [NoItem EXCEPT !.kind = "saveTask", !.ref = ref]
deleteTask(ref) == [NoItem EXCEPT !.kind = "deleteTask", !.ref = ref]
loadInitialData == <<loadTasks, loadProjects>>

CommandKinds == {"loadActiveTimeEntry", "loadTasks", "loadProjects", "saveTask", "deleteTask"}

\* What an Update returns: the model, the task objects as it left them, the commands
\* it issued and the number of task ids it drew from uuid.New.
Upd(m, H, c) == [cmds |-> c, fresh |-> 0, heap |-> H, model |-> m]

\* The task objects after new ones were made for the values of the list, with the
\* references to them.
RECURSIVE Alloc(_, _, _)
Alloc(H, list, refs) ==
    IF list = <<>>
    THEN [heap |-> H, tasks |-> refs]
    ELSE LET r == CHOOSE x \in 1..(Cardinality(DOMAIN H) + 1) : x \notin DOMAIN H
         IN  Alloc((r :> Head(list)) @@ H, Tail(list), Append(refs, r))

\* DashboardModel
MenuActions == <<"tasks", "projects", "time", "new_task", "reports">>

NewDashboardModel == [selectedIndex |-> 0]

\* Mutant: a message that is no key puts the selection back on the first item.
DashboardUpdateResets(m, msg) ==
    IF msg.kind # "KeyMsg" THEN <<[m EXCEPT !.selectedIndex = 0], <<>>>>
    ELSE IF msg.key \in UpKeys
    THEN <<[m EXCEPT !.selectedIndex = IF @ > 0 THEN @ - 1 ELSE @], <<>>>>
    ELSE IF msg.key \in DownKeys
    THEN <<[m EXCEPT !.selectedIndex = IF @ < Len(MenuActions) - 1 THEN @ + 1 ELSE @], <<>>>>
    ELSE IF msg.key \in EnterKeys
    THEN <<m, <<DashboardActionMsg(MenuActions[m.selectedIndex + 1])>>>>
    ELSE <<m, <<>>>>
\* DashboardModel.Update
DashboardUpdate(m, msg) ==
    IF msg.kind # "KeyMsg" THEN <<m, <<>>>>
    ELSE IF msg.key \in UpKeys
    THEN <<[m EXCEPT !.selectedIndex = IF @ > 0 THEN @ - 1 ELSE @], <<>>>>
    ELSE IF msg.key \in DownKeys
    THEN <<[m EXCEPT !.selectedIndex = IF @ < Len(MenuActions) - 1 THEN @ + 1 ELSE @], <<>>>>
    ELSE IF msg.key \in EnterKeys
    THEN <<m, <<DashboardActionMsg(MenuActions[m.selectedIndex + 1])>>>>
    ELSE <<m, <<>>>>

\* Mutant: the selection stays where it was when a shorter list is loaded.
ClampIndexKept(index, n) == index
\* The selection index after a list of n elements was loaded.
ClampIndex(index, n) == IF index >= n /\ n > 0 THEN n - 1 ELSE index

\* The toggle of the task list and of the task detail: done becomes todo, anything else
\* is completed.
ToggleStatus(task, t) ==
    IF task.status = StatusDone THEN [task EXCEPT !.status = StatusTodo]
    ELSE TaskComplete(task, t)

\* TaskListModel
NewTaskListModel == [selectedIndex |-> 0, tasks |-> <<>>]

TaskListUpdate(m, H, msg, t) ==
    LET i == m.selectedIndex + 1
        selected == i <= Len(m.tasks)
        action(a) == Upd(m, H, <<TaskActionMsg(a, m.tasks[i])>>)
    IN  IF msg.kind = "KeyMsg"
        THEN IF Len(m.tasks) = 0
             THEN IF msg.key \in NewKeys THEN Upd(m, H, <<TaskActionMsg("new", Nil)>>)
                  ELSE Upd(m, H, <<>>)
             ELSE IF msg.key \in UpKeys
             THEN Upd([m EXCEPT !.selectedIndex = IF @ > 0 THEN @ - 1 ELSE @], H, <<>>)
             ELSE IF msg.key \in DownKeys
             THEN Upd([m EXCEPT !.selectedIndex = IF @ < Len(m.tasks) - 1 THEN @ + 1 ELSE @],
                      H, <<>>)
             ELSE IF msg.key \in EnterKeys /\ selected THEN action("select")
             ELSE IF msg.key \in NewKeys THEN Upd(m, H, <<TaskActionMsg("new", Nil)>>)
             ELSE IF msg.key \in EditKeys /\ selected THEN action("edit")
             ELSE IF msg.key \in ToggleKeys /\ selected
             THEN Upd(m, [H EXCEPT ![m.tasks[i]] = ToggleStatus(@, t)],
                      <<TaskActionMsg("update", m.tasks[i])>>)
             ELSE IF msg.key \in DeleteKeys /\ selected THEN action("delete")
             ELSE Upd(m, H, <<>>)
        ELSE IF msg.kind = "TaskListLoadedMsg"
        THEN LET a == Alloc(H, msg.tasks, <<>>)
             IN  Upd([selectedIndex |-> ClampIndex(m.selectedIndex, Len(a.tasks)),
                      tasks |-> a.tasks], a.heap, <<>>)
        ELSE Upd(m, H, <<>>)

\* TaskDetailModel
NewTaskDetailModel == [task |-> Nil]

SetTask(m, ref) == [m EXCEPT !.task = ref]

TaskDetailUpdate(m, H, msg, t) ==
    IF m.task = Nil \/ msg.kind # "KeyMsg" THEN Upd(m, H, <<>>)
    ELSE IF msg.key \in EditKeys THEN Upd(m, H, <<TaskActionMsg("edit", m.task)>>)
    ELSE IF msg.key \in DeleteKeys THEN Upd(m, H, <<TaskActionMsg("delete", m.task)>>)
    ELSE IF msg.key \in ToggleKeys
    THEN Upd(m, [H EXCEPT ![m.task] = ToggleStatus(@, t)],
             <<TaskActionMsg("update", m.task)>>)
    ELSE Upd(m, H, <<>>)

\* Mutant: a new form is in editing mode.
NewTaskFormModelEditing ==
    [changelistInput |-> NoText, descriptionInput |-> NoText, dueDateInput |-> NoText,
     focusedField |-> 0, isEditing |-> TRUE, tagsInput |-> NoText, task |-> Nil,
     titleInput |-> NoText]
\* TaskFormModel: its five inputs by their values, the focus, the task and the mode.
NewTaskFormModel ==
    [changelistInput |-> NoText, descriptionInput |-> NoText, dueDateInput |-> NoText,
     focusedField |-> 0, isEditing |-> FALSE, tagsInput |-> NoText, task |-> Nil,
     titleInput |-> NoText]

\* The days of the model's clock as time.Format("2006-01-02") writes them.
DayNames == <<"2024-01-01", "2024-01-02", "2024-01-03">>

FormatDate(t) == <<DayNames[(t \div DayLength) + 1]>>

\* time.Parse("2006-01-02", text): midnight of the day, or an error.
ParseDate(text) ==
    IF \E d \in DOMAIN DayNames : text = <<DayNames[d]>>
    THEN [err |-> NoErr,
          start |-> (CHOOSE d \in DOMAIN DayNames : text = <<DayNames[d]>>) * DayLength
                        - DayLength]
    ELSE [err |-> Err("parsing time"), start |-> 0]

\* The tags of a mutant LoadTask: joined with no separator.
LoadTaskTagsRunTogether(m, H, ref) ==
    [m EXCEPT !.task = ref, !.isEditing = TRUE,
              !.titleInput = H[ref].title,
              !.descriptionInput = H[ref].description,
              !.tagsInput = IF Len(H[ref].tags) > 0 THEN Join(H[ref].tags, NoText) ELSE @,
              !.changelistInput = IF H[ref].changelist # NoText THEN H[ref].changelist ELSE @,
              !.dueDateInput = IF H[ref].dueDate # Nil THEN FormatDate(H[ref].dueDate) ELSE @]
LoadTask(m, H, ref) ==
    [m EXCEPT !.task = ref, !.isEditing = TRUE,
              !.titleInput = H[ref].title,
              !.descriptionInput = H[ref].description,
              !.tagsInput = IF Len(H[ref].tags) > 0
                            THEN Join(H[ref].tags, <<",", Space>>) ELSE @,
              !.changelistInput = IF H[ref].changelist # NoText THEN H[ref].changelist ELSE @,
              !.dueDateInput = IF H[ref].dueDate # Nil THEN FormatDate(H[ref].dueDate) ELSE @]

\* textinput.Update: a rune key is inserted at the end (where SetValue leaves the cursor),
\* the key that deletes what is before the cursor empties the input, any other message
\* changes no text.
TextInputUpdate(text, msg) ==
    IF msg.kind = "KeyMsg" /\ msg.key \in RuneKeys THEN Append(text, msg.key)
    ELSE IF msg.kind = "KeyMsg" /\ msg.key \in ClearKeys THEN NoText
    ELSE text

ErrTitleRequired == "Title is required"

ErrInvalidDueDate == "Invalid due date format. Use YYYY-MM-DD"

\* The tags of the tags input: the parts between the commas, trimmed, the empty ones
\* dropped.
RECURSIVE TrimmedParts(_)
TrimmedParts(parts) ==
    IF parts = <<>> THEN <<>>
    ELSE IF TrimSpace(Head(parts)) = NoText THEN TrimmedParts(Tail(parts))
    ELSE <<TrimSpace(Head(parts))>> \o TrimmedParts(Tail(parts))

\* handleSubmit after the title was validated: the task of the form, or a new one, gets
\* the values of the inputs, field by field, up to a due date that does not parse.
submitTask(m, H, t, n) ==
    LET editing == m.isEditing /\ m.task # Nil
        a == IF editing THEN [heap |-> H, tasks |-> <<m.task>>]
             ELSE Alloc(H, <<NewTask(n, TrimSpace(m.titleInput), t)>>, <<>>)
        ref == a.tasks[1]
        tagText == TrimSpace(m.tagsInput)
        changelistText == TrimSpace(m.changelistInput)
        dueDateText == TrimSpace(m.dueDateInput)
        dueDate == ParseDate(dueDateText)
        task == [a.heap[ref] EXCEPT
                    !.title = TrimSpace(m.titleInput),
                    !.description = TrimSpace(m.descriptionInput),
                    !.tags = IF tagText # NoText THEN TrimmedParts(Split(tagText, ","))
                             ELSE @,
                    !.changelist = IF changelistText # NoText THEN changelistText ELSE @]
    IN  IF dueDateText # NoText /\ dueDate.err # NoErr
        THEN [cmds |-> <<ErrorMsg(Err(ErrInvalidDueDate))>>,
              fresh |-> IF editing THEN 0 ELSE 1,
              heap |-> [a.heap EXCEPT ![ref] = task], model |-> m]
        ELSE [cmds |-> <<TaskFormSubmitMsg(ref)>>,
              fresh |-> IF editing THEN 0 ELSE 1,
              heap |-> [a.heap EXCEPT ![ref] =
                            [task EXCEPT !.dueDate = IF dueDateText # NoText
                                                     THEN dueDate.start ELSE @]],
              model |-> m]

\* Mutant: the title is not validated.
handleSubmitUnvalidated(m, H, t, n) == submitTask(m, H, t, n)
\* TaskFormModel.handleSubmit
handleSubmit(m, H, t, n) ==
    IF TrimSpace(m.titleInput) = NoText
    THEN Upd(m, H, <<ErrorMsg(Err(ErrTitleRequired))>>)
    ELSE submitTask(m, H, t, n)

TaskFormUpdate(m, H, msg, t, n) ==
    IF msg.kind = "KeyMsg" /\ msg.key \in SubmitKeys THEN handleSubmit(m, H, t, n)
    ELSE IF msg.kind = "KeyMsg" /\ msg.key \in BackKeys
    THEN Upd(m, H, <<TaskFormCancelMsg>>)
    ELSE LET focus == IF msg.kind = "KeyMsg" /\ msg.key \in NextKeys
                      THEN (m.focusedField + 1) % 5
                      ELSE IF msg.kind = "KeyMsg" /\ msg.key \in PrevKeys
                      THEN (m.focusedField - 1 + 5) % 5
                      ELSE m.focusedField
         IN  Upd([m EXCEPT
                    !.focusedField = focus,
                    !.titleInput = IF focus = 0 THEN TextInputUpdate(@, msg) ELSE @,
                    !.descriptionInput = IF focus = 1 THEN TextInputUpdate(@, msg) ELSE @,
                    !.tagsInput = IF focus = 2 THEN TextInputUpdate(@, msg) ELSE @,
                    !.changelistInput = IF focus = 3 THEN TextInputUpdate(@, msg) ELSE @,
                    !.dueDateInput = IF focus = 4 THEN TextInputUpdate(@, msg) ELSE @],
                 H, <<>>)

\* ProjectListModel
NewProjectListModel == [projects |-> <<>>, selectedIndex |-> 0]

LoadProjects(m, list) ==
    [projects |-> list, selectedIndex |-> ClampIndex(m.selectedIndex, Len(list))]

ProjectListUpdate(m, msg) ==
    LET i == m.selectedIndex + 1
        selected == i <= Len(m.projects)
    IN  IF msg.kind = "KeyMsg"
        THEN IF Len(m.projects) = 0
             THEN IF msg.key \in NewKeys THEN <<m, <<ProjectActionMsg("new", None)>>>>
                  ELSE <<m, <<>>>>
             ELSE IF msg.key \in UpKeys
             THEN <<[m EXCEPT !.selectedIndex = IF @ > 0 THEN @ - 1 ELSE @], <<>>>>
             ELSE IF msg.key \in DownKeys
             THEN <<[m EXCEPT !.selectedIndex = IF @ < Len(m.projects) - 1 THEN @ + 1 ELSE @],
                    <<>>>>
             ELSE IF msg.key \in EnterKeys /\ selected
             THEN <<m, <<ProjectActionMsg("select", Some(m.projects[i]))>>>>
             ELSE IF msg.key \in NewKeys THEN <<m, <<ProjectActionMsg("new", None)>>>>
             ELSE IF msg.key \in EditKeys /\ selected
             THEN <<m, <<ProjectActionMsg("edit", Some(m.projects[i]))>>>>
             ELSE <<m, <<>>>>
        ELSE IF msg.kind = "ProjectListLoadedMsg"
        THEN <<LoadProjects(m, msg.projects), <<>>>>
        ELSE <<m, <<>>>>

\* AppModel
NewAppModel ==
    [activeTimeEntry |-> None, currentView |-> DashboardView,
     dashboard |-> NewDashboardModel, error |-> NoText, projectList |-> NewProjectListModel,
     selectedProject |-> None, selectedTask |-> Nil, success |-> NoText,
     taskDetail |-> NewTaskDetailModel, taskForm |-> NewTaskFormModel,
     taskList |-> NewTaskListModel]

\* AppModel.Init
AppInit == <<loadActiveTimeEntry>> \o loadInitialData

\* The second part of AppModel.Update: the message goes to the sub-model of the current
\* view, and the root handles the action messages of that view.
Delegate(m, H, msg, t, n) ==
    CASE m.currentView = DashboardView ->
            LET d == DashboardUpdate(m.dashboard, msg)
                m1 == [m EXCEPT !.dashboard = d[1]]
            IN  IF msg.kind # "DashboardActionMsg" THEN Upd(m1, H, d[2])
                ELSE IF msg.action = "tasks"
                THEN Upd([m1 EXCEPT !.currentView = TaskListView], H, d[2] \o <<loadTasks>>)
                ELSE IF msg.action = "projects"
                THEN Upd([m1 EXCEPT !.currentView = ProjectListView], H,
                         d[2] \o <<loadProjects>>)
                ELSE IF msg.action = "new_task"
                THEN Upd([m1 EXCEPT !.currentView = TaskFormView,
                                    !.taskForm = NewTaskFormModel], H, d[2])
                ELSE Upd(m1, H, d[2])
      [] m.currentView = TaskListView ->
            LET r == TaskListUpdate(m.taskList, H, msg, t)
                m1 == [m EXCEPT !.taskList = r.model]
            IN  IF msg.kind # "TaskActionMsg" THEN Upd(m1, r.heap, r.cmds)
                ELSE IF msg.action = "select"
                THEN Upd([m1 EXCEPT !.selectedTask = msg.ref,
                                    !.taskDetail = SetTask(@, msg.ref),
                                    !.currentView = TaskDetailView], r.heap, r.cmds)
                ELSE IF msg.action = "new"
                THEN Upd([m1 EXCEPT !.currentView = TaskFormView,
                                    !.taskForm = NewTaskFormModel], r.heap, r.cmds)
                ELSE IF msg.action = "edit"
                THEN Upd([m1 EXCEPT !.selectedTask = msg.ref,
                                    !.currentView = TaskFormView,
                                    !.taskForm = LoadTask(NewTaskFormModel, r.heap, msg.ref)],
                         r.heap, r.cmds)
                ELSE IF msg.action = "delete"
                THEN Upd(m1, r.heap, r.cmds \o <<deleteTask(msg.ref), loadTasks>>)
                ELSE IF msg.action = "update"
                THEN Upd(m1, r.heap, r.cmds \o <<saveTask(msg.ref), loadTasks>>)
                ELSE Upd(m1, r.heap, r.cmds)
      [] m.currentView = TaskDetailView ->
            LET r == TaskDetailUpdate(m.taskDetail, H, msg, t)
                m1 == [m EXCEPT !.taskDetail = r.model]
            IN  IF msg.kind # "TaskActionMsg" THEN Upd(m1, r.heap, r.cmds)
                ELSE IF msg.action = "edit"
                THEN Upd([m1 EXCEPT !.selectedTask = msg.ref,
                                    !.currentView = TaskFormView,
                                    !.taskForm = LoadTask(NewTaskFormModel, r.heap, msg.ref)],
                         r.heap, r.cmds)
                ELSE IF msg.action = "delete"
                THEN Upd([m1 EXCEPT !.currentView = TaskListView], r.heap,
                         r.cmds \o <<deleteTask(msg.ref), loadTasks>>)
                ELSE IF msg.action = "update"
                THEN Upd([m1 EXCEPT !.taskDetail = SetTask(@, msg.ref)], r.heap,
                         r.cmds \o <<saveTask(msg.ref)>>)
                ELSE Upd(m1, r.heap, r.cmds)
      [] m.currentView = TaskFormView ->
            LET r == TaskFormUpdate(m.taskForm, H, msg, t, n)
                m1 == [m EXCEPT !.taskForm = r.model]
            IN  IF msg.kind # "TaskFormSubmitMsg" THEN [r EXCEPT !.model = m1]
                ELSE [r EXCEPT !.model = [m1 EXCEPT !.currentView = TaskListView],
                               !.cmds = @ \o <<saveTask(msg.ref), loadTasks>>]
      [] m.currentView = ProjectListView ->
            LET p == ProjectListUpdate(m.projectList, msg)
                p1 == IF msg.kind = "ProjectListLoadedMsg"
                      THEN LoadProjects(p[1], msg.projects)
                      ELSE p[1]
                m1 == [m EXCEPT !.projectList = p1]
            IN  IF msg.kind = "ProjectActionMsg" /\ msg.action = "select"
                THEN Upd([m1 EXCEPT !.selectedProject = msg.projects,
                                    !.currentView = TaskListView], H,
                         p[2] \o <<loadTasksForProject(Val(msg.projects).id)>>)
                ELSE Upd(m1, H, p[2])
      [] OTHER -> Upd(m, H, <<>>)

\* The first part of AppModel.Update: the messages the root handles and returns from,
\* so that no sub-model sees them.
RootHandles(m, msg) ==
    \/ msg.kind = "KeyMsg" /\ msg.key \in QuitKeys \cup HelpKeys \cup RefreshKeys
    \/ msg.kind = "KeyMsg" /\ msg.key \in BackKeys /\ m.currentView # DashboardView
    \/ msg.kind \in {"ErrorMsg", "SuccessMsg", "ActiveTimeEntryMsg"}

\* Mutant: the help key closes the help when it is on screen.
RootUpdateHelpToggles(m, H, msg) ==
    IF msg.kind = "KeyMsg" /\ msg.key \in QuitKeys THEN Upd(m, H, <<QuitMsg>>)
    ELSE IF msg.kind = "KeyMsg" /\ msg.key \in HelpKeys
    THEN Upd([m EXCEPT !.currentView = IF @ = HelpView THEN DashboardView ELSE HelpView],
             H, <<>>)
    ELSE IF msg.kind = "KeyMsg" /\ msg.key \in BackKeys
    THEN Upd([m EXCEPT !.currentView = DashboardView, !.error = NoText, !.success = NoText],
             H, loadInitialData)
    ELSE IF msg.kind = "KeyMsg" /\ msg.key \in RefreshKeys THEN Upd(m, H, loadInitialData)
    ELSE IF msg.kind = "ErrorMsg" THEN Upd([m EXCEPT !.error = msg.text], H, <<>>)
    ELSE IF msg.kind = "SuccessMsg" THEN Upd([m EXCEPT !.success = msg.text], H, <<>>)
    ELSE Upd([m EXCEPT !.activeTimeEntry = None], H, <<>>)
RootUpdate(m, H, msg) ==
    IF msg.kind = "KeyMsg" /\ msg.key \in QuitKeys THEN Upd(m, H, <<QuitMsg>>)
    ELSE IF msg.kind = "KeyMsg" /\ msg.key \in HelpKeys
    THEN Upd([m EXCEPT !.currentView = HelpView], H, <<>>)
    ELSE IF msg.kind = "KeyMsg" /\ msg.key \in BackKeys
    THEN Upd([m EXCEPT !.currentView = DashboardView, !.error = NoText, !.success = NoText],
             H, loadInitialData)
    ELSE IF msg.kind = "KeyMsg" /\ msg.key \in RefreshKeys THEN Upd(m, H, loadInitialData)
    ELSE IF msg.kind = "ErrorMsg" THEN Upd([m EXCEPT !.error = msg.text], H, <<>>)
    ELSE IF msg.kind = "SuccessMsg" THEN Upd([m EXCEPT !.success = msg.text], H, <<>>)
    ELSE Upd([m EXCEPT !.activeTimeEntry = None], H, <<>>)

\* Mutant: the root handles no message itself.
AppUpdateDelegatesAll(m, H, msg, t, n) == Delegate(m, H, msg, t, n)
\* AppModel.Update
AppUpdate(m, H, msg, t, n) ==
    IF RootHandles(m, msg) THEN RootUpdate(m, H, msg) ELSE Delegate(m, H, msg, t, n)

\* The rows in the order "ORDER BY created_at DESC" gives: ids are handed out in the
\* order of creation.
RECURSIVE Descending(_)
Descending(ids) ==
    IF ids = {}
    THEN <<>>
    ELSE LET x == CHOOSE v \in ids : \A w \in ids : w <= v
         IN  <<x>> \o Descending(ids \ {x})

\* TaskRepository.List with the filter's ProjectID alone.
TaskRepoList(S, projectID) ==
    LET ids == Descending({x \in DOMAIN S.tasks :
                    projectID # NoId => S.tasks[x].projectID = projectID})
    IN  [i \in 1..Len(ids) |-> scanTask(ids[i], S.tasks[ids[i]])]

\* ProjectRepository.List with an empty filter.
ProjectRepoList(S) ==
    LET ids == Descending(DOMAIN S.projects)
    IN  [i \in 1..Len(ids) |-> scanProject(ids[i], S.projects[ids[i]])]

\* What a command does when its goroutine runs: its work on the store and the message
\* it sends.
RunCommand(S, H, c) ==
    CASE c.kind = "loadActiveTimeEntry" -> [msg |-> ActiveTimeEntryMsg, store |-> S]
      [] c.kind = "loadTasks" -> [msg |-> TaskListLoadedMsg(TaskRepoList(S, c.id)), store |-> S]
      [] c.kind = "loadProjects" ->
            [msg |-> ProjectListLoadedMsg(ProjectRepoList(S)), store |-> S]
      [] c.kind = "saveTask" ->
            LET r == TaskRepoUpdate(S, H[c.ref])
            IN  [msg |-> IF r.err # NoErr
                         THEN ErrorMsg(Wrap("Failed to save task", r.err))
                         ELSE SuccessMsg(Err("Task saved successfully")),
                 store |-> r.store]
      [] c.kind = "deleteTask" ->
            LET r == TaskRepoDelete(S, H[c.ref].id)
            IN  [msg |-> IF r.err # NoErr
                         THEN ErrorMsg(Wrap("Failed to delete task", r.err))
                         ELSE SuccessMsg(Err("Task deleted successfully")),
                 store |-> r.store]

\* The commands and messages in flight after the items were added.
RECURSIVE Issue(_, _)
Issue(c, items) ==
    IF items = <<>> THEN c ELSE Issue(c (+) SetToBag({Head(items)}), Tail(items))

\* The task objects the model, a command or a message still refers to.
Refs(m, c) ==
    ({m.taskList.tasks[i] : i \in DOMAIN m.taskList.tasks}
        \cup {m.taskDetail.task, m.selectedTask, m.taskForm.task}
        \cup {i.ref : i \in BagToSet(c)}) \ {Nil}

\* The references in the order the model holds them, then the ones only a command or a
\* message holds.
RECURSIVE Distinct(_, _)
Distinct(refs, seen) ==
    IF refs = <<>> THEN seen
    ELSE IF Head(refs) = Nil \/ \E i \in DOMAIN seen : seen[i] = Head(refs)
    THEN Distinct(Tail(refs), seen)
    ELSE Distinct(Tail(refs), Append(seen, Head(refs)))

RECURSIVE Ascending(_)
Ascending(refs) ==
    IF refs = {}
    THEN <<>>
    ELSE LET x == CHOOSE v \in refs : \A w \in refs : v <= w
         IN  <<x>> \o Ascending(refs \ {x})

RefOrder(m, c) ==
    LET held == Distinct(m.taskList.tasks
                    \o <<m.taskDetail.task, m.selectedTask, m.taskForm.task>>, <<>>)
    IN  held \o Ascending(Refs(m, c) \ {held[i] : i \in DOMAIN held})

\* A pointer means no more than which object it points to: the objects something refers
\* to are numbered in RefOrder, the others are gone (the garbage collector).
Collect(H, m, c) ==
    LET order == RefOrder(m, c)
        new(r) == IF r = Nil THEN Nil ELSE CHOOSE i \in DOMAIN order : order[i] = r
        item(i) == [i EXCEPT !.ref = new(@)]
        items == BagToSet(c)
    IN  [cmds |-> [j \in {item(i) : i \in items} |-> c[CHOOSE i \in items : item(i) = j]],
         heap |-> [r \in DOMAIN order |-> H[order[r]]],
         model |-> [m EXCEPT !.taskList.tasks = [i \in DOMAIN @ |-> new(@[i])],
                             !.taskDetail.task = new(@),
                             !.selectedTask = new(@),
                             !.taskForm.task = new(@)]]

\* ------------------------------------------------------------------- Spec
NoCall == [err |-> NoErr, id |-> NoId, op |-> "none"]

\* What a returned call leaves for its caller: the error and the id of the row returned.
Returned(l) ==
    [err |-> l.err,
     id |-> CASE l.op \in {"StartTimeTracking", "StopTimeTracking"} -> l.entry.id
              [] l.op \in {"CreateTask", "UpdateTask"} -> l.task.id
              [] l.op \in {"CreateProject", "UpdateProject"} -> l.project.id
              [] OTHER -> l.in.id,
     op |-> l.op]

Init ==
    /\ schemaVersion \in {3, 5}
    /\ now = 0
    /\ projects = <<>>
    /\ tasks = <<>>
    /\ entries = <<>>
    /\ nextId = [entry |-> 1, project |-> 1, task |-> 1]
    /\ last = NoCall
    /\ report = NoReport
    /\ app = NewAppModel
    /\ heap = <<>>
    /\ cmds = Issue(EmptyBag, AppInit)
    /\ running = TRUE
    /\ calls = [p \in Procs |-> Idle]

\* Fresh ids were left for every row the call inserted (the model's bound on rows).
IdsLeft(S) ==
    /\ S.nextId.task <= Cardinality(TaskIds) + 1
    /\ S.nextId.project <= Cardinality(ProjIds) + 1
    /\ S.nextId.entry <= MaxEntries + 1

SetStore(S) ==
    /\ projects' = S.projects
    /\ tasks' = S.tasks
    /\ entries' = S.entries
    /\ nextId' = S.nextId

\* A command runs the service call from its first repository call to its return.
Command(call) ==
    \E o \in Run(Store, schemaVersion, now, call) :
        /\ IdsLeft(o.store)
        /\ SetStore(o.store)
        /\ last' = Returned(o.loc)
        /\ report' = NoReport
        /\ UNCHANGED <<schemaVersion, now, calls, tuiVars>>

StartTimeTracking == \E in \in StartInputs : Command(Call("StartTimeTracking", in, "getActive"))

StopTimeTracking == Command(Call("StopTimeTracking", [id |-> NoId], "getActive"))

\* StartTimeTracking while the storage may fail under its query of the active entry.
StartUnderFault ==
    \E in \in StartInputs : Command(Call("StartTimeTracking", in, "getActiveFaulty"))

\* The id uuid.New() gives the new task is one no caller could name as the parent.
CreateTask(inputs) ==
    \E in \in inputs :
        /\ in.parentID # nextId.task
        /\ Command(Call("CreateTask", in, "create"))

UpdateTask(inputs) == \E in \in inputs : Command(Call("UpdateTask", in, "getByID"))

DeleteTask == \E in \in IdInputs(TaskIds) : Command(Call("DeleteTask", in, "delete"))

CreateProject(inputs) == \E in \in inputs : Command(Call("CreateProject", in, "getByName"))

UpdateProject(inputs) == \E in \in inputs : Command(Call("UpdateProject", in, "getByID"))

DeleteProject == \E in \in IdInputs(ProjIds) : Command(Call("DeleteProject", in, "delete"))

\* time.Now() never goes back.
\* The report command: GenerateReport for a window, the store left as it is.
GenerateReport(w) ==
    /\ report' \in GenerateReportOf(Store, now, w.startDate, w.endDate)
    /\ last' = [err |-> NoErr, id |-> NoId, op |-> "GenerateReport"]
    /\ UNCHANGED <<schemaVersion, now, projects, tasks, entries, nextId, calls, tuiVars>>

Report == \E w \in Windows : GenerateReport(w)

\* --------------------------------------------------------- the TUI program
\* The event loop hands one message to Update; c is what stays in flight beside it.
Handle(msg, c) ==
    LET r == AppUpdate(app, heap, msg, now, nextId.task)
        g == Collect(r.heap, r.model, Issue(c, r.cmds))
    IN  /\ nextId.task + r.fresh <= Cardinality(TaskIds) + 1
        /\ BagCardinality(g.cmds) <= MaxCmds
        /\ app' = g.model
        /\ cmds' = g.cmds
        /\ heap' = g.heap
        /\ nextId' = [nextId EXCEPT !.task = @ + r.fresh]
        /\ UNCHANGED <<schemaVersion, now, projects, tasks, entries, last, report, calls,
                       running>>

\* The program has handled a key, run a command or received a message.
Started == app # NewAppModel \/ cmds # Issue(EmptyBag, AppInit) \/ ~running

\* The user types in the title input only, and while it holds fewer than MaxTitle
\* pieces.
Typable(k) ==
    (/\ app.currentView = TaskFormView
     /\ k \in RuneKeys \ (QuitKeys \cup HelpKeys \cup RefreshKeys))
        => /\ app.taskForm.focusedField = 0
           /\ Len(app.taskForm.titleInput) < MaxTitle

\* The messages whose handling issues two commands.
Expanding(c) ==
    BagCardinality([i \in {j \in BagToSet(c) :
                              \/ j.kind = "TaskFormSubmitMsg"
                              \/ j.kind = "TaskActionMsg" /\ j.action \in {"update", "delete"}}
                       |-> c[i]])

\* The user presses a key; no two messages that issue a pair of commands wait at once, so
\* that the messages in flight can always be handed to Update within MaxCmds.
KeyPress(k) ==
    /\ running
    /\ Typable(k)
    /\ Handle(KeyMsg(k), cmds)
    /\ Expanding(cmds') <= 1

Key(keys) == \E k \in keys : KeyPress(k)

\* The input of the task form that has the focus.
FocusedInput(m) ==
    CASE m.focusedField = 0 -> m.titleInput
      [] m.focusedField = 1 -> m.descriptionInput
      [] m.focusedField = 2 -> m.tagsInput
      [] m.focusedField = 3 -> m.changelistInput
      [] m.focusedField = 4 -> m.dueDateInput

\* The user types a rune in an input of the task form other than the title, while the
\* input holds fewer than MaxTitle pieces.
TypableInto(k) ==
    /\ app.currentView = TaskFormView
    /\ k \in RuneKeys \ (QuitKeys \cup HelpKeys \cup RefreshKeys)
    /\ app.taskForm.focusedField # 0
    /\ Len(FocusedInput(app.taskForm)) < MaxTitle

\* The user presses key k when ok holds.
Press(k, ok) ==
    /\ running
    /\ ok
    /\ Handle(KeyMsg(k), cmds)
    /\ Expanding(cmds') <= 1

\* A command's goroutine runs: it works on the store and has its message ready.
RunEffectOf(c) ==
    /\ running
    /\ c.kind \in CommandKinds
    /\ BagIn(c, cmds)
    /\ LET r == RunCommand(Store, heap, c)
           g == Collect(heap, app, (cmds (-) SetToBag({c})) (+) SetToBag({r.msg}))
       IN  /\ SetStore(r.store)
           /\ app' = g.model
           /\ cmds' = g.cmds
           /\ heap' = g.heap
    /\ UNCHANGED <<schemaVersion, now, last, report, calls, running>>

RunEffect == \E c \in BagToSet(cmds) : RunEffectOf(c)

\* The event loop receives a message that is ready: QuitMsg ends the program, any other
\* goes to Update.
DeliverOf(msg) ==
    /\ running
    /\ msg.kind \notin CommandKinds
    /\ BagIn(msg, cmds)
    /\ IF msg.kind = "QuitMsg"
       THEN LET g == Collect(heap, app, EmptyBag)
            IN  /\ running' = FALSE
                /\ app' = g.model
                /\ cmds' = g.cmds
                /\ heap' = g.heap
                /\ UNCHANGED <<schemaVersion, now, projects, tasks, entries, nextId, last,
                               report, calls>>
       ELSE Handle(msg, cmds (-) SetToBag({msg}))

Deliver == \E msg \in BagToSet(cmds) : DeliverOf(msg)

Tick ==
    /\ now < MaxTime
    /\ now' = now + 1
    /\ UNCHANGED <<schemaVersion, projects, tasks, entries, nextId, last, report, calls,
                   tuiVars>>

\* Time tracking on tasks whose status changes.
Next ==
    \/ CreateProject(OneProject)
    \/ CreateTask(TopLevelTasks)
    \/ StartTimeTracking
    \/ StopTimeTracking
    \/ Tick

Spec == Init /\ [][Next]_vars

\* Projects, task trees and their deletion.
NextStore ==
    \/ CreateProject(CreateProjectInputs)
    \/ DeleteProject
    \/ CreateTask(AnyTasks)
    \/ StartTimeTracking
    \/ StopTimeTracking

SpecStore == Init /\ [][NextStore]_vars

\* Task statuses, completion and the task tree.
NextTask ==
    \/ CreateProject(OneProject)
    \/ CreateTask(AnyTasks)
    \/ UpdateTask(StatusUpdates)
    \/ UpdateTask(ParentUpdates)
    \/ StartTimeTracking

SpecTask == Init /\ [][NextTask]_vars

\* Project statuses and archive times.
NextStatus ==
    \/ CreateProject(CreateProjectInputs)
    \/ UpdateProject(ProjectStatusUpdates)
    \/ Tick

SpecStatus == Init /\ [][NextStatus]_vars

\* The time commands and the report command.
NextReport ==
    \/ CreateProject(OneProject)
    \/ CreateTask(AnyTasks)
    \/ StartTimeTracking
    \/ StopTimeTracking
    \/ Report
    \/ Tick

SpecReport == Init /\ [][NextReport]_vars

\* The keys that move between the views, and the keys that fill and submit the form.
NavKeys == {"q", "?", "esc", "r", "down", "enter"}
FormKeys == {"down", "enter", "n", "tab", "a", Space, "ctrl+s"}

\* The TUI, opened on a store a task command may have written to, and the user moving
\* between its views.
NextTUI ==
    \/ (~Started /\ CreateTask(OneTask))
    \/ Key(NavKeys)
    \/ RunEffect
    \/ Deliver

SpecTUI == Init /\ [][NextTUI]_vars

\* The TUI and the user filling the task form.
NextForm ==
    \/ Key(FormKeys)
    \/ RunEffect
    \/ Deliver

SpecForm == Init /\ [][NextForm]_vars

\* The keys that act on the tasks of the list and of the detail view.
ListKeys == {"enter", "t", "d"}

\* The TUI, opened on a store with one task, and the user working on it.
NextList ==
    \/ (~Started /\ tasks = <<>> /\ CreateTask(OneTask))
    \/ Key(ListKeys)
    \/ RunEffect
    \/ Deliver

SpecList == Init /\ [][NextList]_vars

\* task add with nothing but the title, and with a description, tags, a changelist and a
\* due date.
EditedTasks ==
    OneTask \cup
    {[changelist |-> <<"cl-42">>, description |-> <<"Session", Space, "expires">>,
      dueDate |-> <<"tomorrow">>, parentID |-> Nil, projectID |-> NoId,
      tags |-> Split(<<"ui", ",", "bug">>, ","), title |-> FixLogin]}

\* task update --status done
DoneUpdates == {u \in StatusUpdates : u.id \in TaskIds /\ u.status = Some(StatusDone)}

\* The keys of a user who edits a task from the list or from the detail view.
EditKeysUsed == {"enter", "e", "ctrl+s"}

\* The TUI, opened on a task that was added at some time and has some status, and the user
\* editing the task.
NextEdit ==
    \/ (~Started /\ tasks = <<>> /\ CreateTask(EditedTasks))
    \/ (~Started /\ tasks = <<>> /\ Tick)
    \/ (~Started /\ UpdateTask(DoneUpdates))
    \/ Key(EditKeysUsed)
    \/ RunEffect
    \/ Deliver

SpecEdit == Init /\ [][NextEdit]_vars

\* The keys of a user who marks a task done, or not done, looks at the help and goes back.
ToggleKeysUsed == {"enter", "t", "?", "esc"}

NextToggle ==
    \/ (~Started /\ tasks = <<>> /\ CreateTask(OneTask))
    \/ Key(ToggleKeysUsed)
    \/ RunEffect
    \/ Deliver

SpecToggle == Init /\ [][NextToggle]_vars

\* The keys of a user who moves through the menu and the lists and refreshes them.
MoveKeys == {"up", "down", "enter", "r"}

TwoProjects == {[name |-> n] : n \in Names}

\* task delete and project delete of an id in use, in another terminal
DeleteOneTask ==
    \E x \in DOMAIN tasks : Command(Call("DeleteTask", [id |-> x], "delete"))

DeleteOneProject ==
    \E x \in DOMAIN projects : Command(Call("DeleteProject", [id |-> x], "delete"))

\* The TUI, opened on a store with tasks or with projects; the user moves through the
\* lists, and between two of their keys commands in another terminal delete tasks and
\* projects.
NextMove ==
    \/ (~Started /\ projects = <<>> /\ CreateTask(OneTask))
    \/ (~Started /\ tasks = <<>> /\ CreateProject(TwoProjects))
    \/ (Started /\ cmds = EmptyBag /\ DeleteOneTask)
    \/ (Started /\ cmds = EmptyBag /\ DeleteOneProject)
    \/ Key(MoveKeys)
    \/ RunEffect
    \/ Deliver

SpecMove == Init /\ [][NextMove]_vars

\* task add in the first project and outside any project
SortedTasks ==
    {[parentID |-> Nil, projectID |-> q, title |-> FixLogin] : q \in {NoId, 1}}

\* The keys of a user who opens the projects and then the tasks of one.
OpenKeys == {"down", "enter"}

\* The TUI, opened on a store with a project and tasks inside and outside it, and the
\* user opening the tasks of the project.
NextOpen ==
    \/ (~Started /\ projects = <<>> /\ CreateProject(OneProject))
    \/ (~Started /\ projects # <<>> /\ CreateTask(SortedTasks))
    \/ Key(OpenKeys)
    \/ RunEffect
    \/ Deliver

SpecOpen == Init /\ [][NextOpen]_vars

\* task add with a description, tags and a due date
RevisedTasks ==
    {[changelist |-> NoText, description |-> <<"Session", Space, "expires">>,
      dueDate |-> <<"tomorrow">>, parentID |-> Nil, projectID |-> NoId,
      tags |-> Split(<<"ui", ",", "bug">>, ","), title |-> FixLogin]}

\* The keys of a user who edits a task, empties inputs of the form and submits it.
ReviseKeys == {"enter", "e", "a", "tab", "ctrl+u", "ctrl+s"}

\* The user opens the form on a task once.
FormUnused == ~app.taskForm.isEditing

\* The task of the store is due on the first day of the clock.
DueFirstDay == \A x \in DOMAIN tasks : tasks[x].dueDate = 0

\* The due date input has the focus.
DueDateFocused == app.taskForm.focusedField = 4

\* When the user presses key k: enter in Dashboard, e on a form not yet used, a rune in
\* the due date input.
Revising(k) ==
    CASE k = "enter" -> app.currentView = DashboardView
      [] k = "e" -> FormUnused /\ Typable(k)
      [] k = "a" -> DueDateFocused /\ TypableInto(k)
      [] OTHER -> Typable(k)

\* The TUI, opened on a task with a description and tags, due on the first day, and the
\* user revising the task in the form.
NextRevise ==
    \/ (~Started /\ tasks = <<>> /\ CreateTask(RevisedTasks) /\ DueFirstDay')
    \/ \E k \in ReviseKeys : Press(k, Revising(k))
    \/ RunEffect
    \/ Deliver

SpecRevise == Init /\ [][NextRevise]_vars

\* The keys of a user who works on a task and then leaves.
LiveKeys == {"enter", "t", "q"}

NextLive ==
    \/ (~Started /\ tasks = <<>> /\ CreateTask(OneTask))
    \/ Key(LiveKeys)
    \/ RunEffect
    \/ Deliver

\* The TUI under the Go scheduler: a goroutine that can run does run (tea.Batch starts
\* one for each command), and the event loop receives a message that waits on its
\* channel.
SpecLive == Init /\ [][NextLive]_vars /\ WF_vars(RunEffect) /\ WF_vars(Deliver)

\* --------------------------------------------------- concurrent commands
\* Process p starts a service call; nothing is read or written yet.
Begin(p, call) ==
    /\ calls[p].pc = "done"
    /\ calls' = [calls EXCEPT ![p] = call]
    /\ UNCHANGED <<schemaVersion, now, projects, tasks, entries, nextId, last, report,
                   tuiVars>>

\* Process p makes its call's next repository call.
ProcStep(p) ==
    /\ calls[p].pc # "done"
    /\ \E o \in Step(Store, schemaVersion, now, calls[p]) :
          /\ IdsLeft(o.store)
          /\ SetStore(o.store)
          /\ calls' = [calls EXCEPT ![p] = o.loc]
    /\ UNCHANGED <<schemaVersion, now, last, report, tuiVars>>

BeginStart(p) == \E in \in StartInputs : Begin(p, Call("StartTimeTracking", in, "getActive"))

BeginStop(p) == Begin(p, Call("StopTimeTracking", [id |-> NoId], "getActive"))

BeginCreateProject(p) ==
    \E in \in CreateProjectInputs : Begin(p, Call("CreateProject", in, "getByName"))

BeginUpdateProject(p) ==
    \E in \in UpdateProjectInputs : Begin(p, Call("UpdateProject", in, "getByID"))

\* Two commands start and stop the timer at once.
NextConc ==
    \/ CreateProject(OneProject)
    \/ CreateTask(ProjectTasks)
    \/ \E p \in Procs : BeginStart(p)
    \/ \E p \in Procs : BeginStop(p)
    \/ \E p \in Procs : ProcStep(p)
    \/ Tick

SpecConc == Init /\ [][NextConc]_vars

\* Two commands create and rename projects at once.
NextProject ==
    \/ \E p \in Procs : BeginCreateProject(p)
    \/ \E p \in Procs : BeginUpdateProject(p)
    \/ \E p \in Procs : ProcStep(p)

SpecProject == Init /\ [][NextProject]_vars

BeginDeleteTask(p) == \E in \in IdInputs(TaskIds) : Begin(p, Call("DeleteTask", in, "delete"))

\* One command starts the timer on a task while another deletes a task.
NextRace ==
    \/ CreateTask(OneTask)
    \/ \E p \in Procs : BeginStart(p)
    \/ \E p \in Procs : BeginDeleteTask(p)
    \/ \E p \in Procs : ProcStep(p)

SpecRace == Init /\ [][NextRace]_vars

\* The timer commands on a storage that may fail under the query of the active entry.
NextFault ==
    \/ CreateTask(OneTask)
    \/ StartUnderFault
    \/ StopTimeTracking
    \/ Tick

SpecFault == Init /\ [][NextFault]_vars

\* task update --project: the task is moved to a project, or to none.
ProjectMoves ==
    {[id |-> x, parentID |-> None, projectID |-> Some(q), status |-> None] :
        x \in TaskIds, q \in {NoId} \cup ProjIds}

\* Tasks of a project with their time entries, moved between projects, and the projects
\* deleted.
NextRehome ==
    \/ CreateProject(TwoProjects)
    \/ CreateTask(ProjectTasks)
    \/ StartTimeTracking
    \/ StopTimeTracking
    \/ UpdateTask(ProjectMoves)
    \/ DeleteProject

SpecRehome == Init /\ [][NextRehome]_vars

\* task update --project "": the task is taken out of its project.
Unfiled == {u \in ProjectMoves : u.projectID = Some(NoId)}

\* The user marks the task of the detail view done, or not done.
ToggleInDetail == app.currentView = TaskDetailView /\ KeyPress("t")

\* The TUI, opened on a task of a project, and the user marking the task in the detail
\* view, while in another terminal the task is taken out of the project and the project
\* is deleted.
NextDetail ==
    \/ (~Started /\ projects = <<>> /\ CreateProject(OneProject))
    \/ (~Started /\ tasks = <<>> /\ CreateTask(ProjectTasks))
    \/ (Started /\ cmds = EmptyBag /\ UpdateTask(Unfiled))
    \/ (Started /\ cmds = EmptyBag /\ DeleteOneProject)
    \/ KeyPress("enter")
    \/ ToggleInDetail
    \/ RunEffect
    \/ Deliver

SpecDetail == Init /\ [][NextDetail]_vars

\* The arguments of --tags, which the command splits at the commas.
TagArgs == {<<"ui">>, <<"ui", ",", "ui">>, <<"ui", ",", "bug">>}
TagNames == {<<"ui">>, <<"bug">>}

\* task add: the title alone; with --tags; with --priority; in a git repository on main.
TaggedTasks ==
    {[parentID |-> Nil, projectID |-> NoId, title |-> FixLogin]}
        \cup {[parentID |-> Nil, projectID |-> NoId, tags |-> Split(a, ","),
               title |-> FixLogin] : a \in TagArgs}
        \cup {[parentID |-> Nil, priority |-> PriorityHigh, projectID |-> NoId,
               title |-> FixLogin]}
        \cup {[branch |-> <<"main">>, parentID |-> Nil, projectID |-> NoId,
               title |-> FixLogin]}

\* UpdateTask of the tags alone.
TagUpdates ==
    {[id |-> x, parentID |-> None, projectID |-> None, status |-> None,
      tags |-> Some(Split(a, ","))] : x \in TaskIds, a \in TagArgs}

TagInputs == {[id |-> x, tag |-> g] : x \in TaskIds, g \in TagNames}

AddTagCommand == \E in \in TagInputs : Command(Call("AddTag", in, "getByID"))

RemoveTagCommand == \E in \in TagInputs : Command(Call("RemoveTag", in, "getByID"))

NoteIds == {"n1", "n2"}
NoteInputs == {[id |-> x, noteID |-> n] : x \in TaskIds, n \in NoteIds}

LinkNoteCommand == \E in \in NoteInputs : Command(Call("LinkNote", in, "getByID"))

UnlinkNoteCommand == \E in \in NoteInputs : Command(Call("UnlinkNote", in, "getByID"))

\* Tasks created with tags and a priority or without, their tags changed, and notes
\* linked to them.
NextTags ==
    \/ CreateTask(TaggedTasks)
    \/ UpdateTask(TagUpdates)
    \/ AddTagCommand
    \/ RemoveTagCommand
    \/ LinkNoteCommand
    \/ UnlinkNoteCommand

SpecTags == Init /\ [][NextTags]_vars

\* ---------------------------------------------------------------- claims
\* The time entries that are running (end_time IS NULL).
ActiveEntries == {e \in DOMAIN entries : entries[e].end = Nil}

\* C1: however the repository calls of concurrent StartTimeTracking and
\* StopTimeTracking calls interleave, at most one time entry has a null end time.
AtMostOneActiveEntry == Cardinality(ActiveEntries) <= 1

\* C2: after any sequence of task operations every task has a completion
\* time if and only if its status is done.
CompletedAtIffDone ==
    \A x \in DOMAIN tasks : (tasks[x].completedAt # Nil) <=> (tasks[x].status = StatusDone)

\* The step is a StartTimeTracking command with input in / one that succeeded.
StartCommand(in) ==
    /\ last'.op = "StartTimeTracking"
    /\ Command(Call("StartTimeTracking", in, "getActive"))
StartedBy(in) == last'.err = NoErr /\ StartCommand(in)
\* The step is a StopTimeTracking command / one that succeeded.
StopCommand == last'.op = "StopTimeTracking" /\ StopTimeTracking
Stopped == last'.err = NoErr /\ StopCommand
TablesUnchanged == UNCHANGED <<projects, tasks, entries>>

\* C3 as stated: StartTimeTracking while an entry is active fails with
\* ErrActiveTimeEntry whatever task id is given, and changes no table.
StartWhileActiveFailsForAnyId ==
    [][\A in \in StartInputs :
          (ActiveEntries # {} /\ StartCommand(in))
          => (last'.err = Err(ErrActiveTimeEntry) /\ TablesUnchanged)]_vars

\* C3, amended: StartTimeTracking with a non-empty task id while an entry is
\* active fails with ErrActiveTimeEntry and changes no table (the empty id is
\* rejected with ErrInvalidTaskID before the active entry is looked for).
StartWhileActiveFails ==
    [][\A in \in StartInputs :
          (ActiveEntries # {} /\ in.taskID # NoId /\ StartCommand(in))
          => (last'.err = Err(ErrActiveTimeEntry) /\ TablesUnchanged)]_vars

StartWhileActiveFailed ==
    /\ last.op = "StartTimeTracking"
    /\ last.err = Err(ErrActiveTimeEntry)
    /\ ActiveEntries # {}

\* C4: a StartTimeTracking for task T that succeeds adds exactly one time entry,
\* of task T, started now and not ended, and changes no other entry; T's status
\* is doing; the active-entry query returns exactly the new entry.
StartCreatesTheActiveEntry ==
    [][\A in \in StartInputs :
          StartedBy(in) =>
            LET new == DOMAIN entries' \ DOMAIN entries
            IN  /\ Cardinality(new) = 1
                /\ \A e \in DOMAIN entries : e \in DOMAIN entries' /\ entries'[e] = entries[e]
                /\ \A e \in new :
                      /\ entries'[e].taskID = in.taskID
                      /\ entries'[e].start = now
                      /\ entries'[e].end = Nil
                      /\ last'.id = e
                /\ tasks'[in.taskID].status = StatusDoing
                /\ TimeEntryRepoGetActive(Store') =
                      {[entry |-> scanTimeEntry(e, entries'[e]), err |-> NoErr] : e \in new}]_vars

StartSucceeded ==
    /\ last.op = "StartTimeTracking"
    /\ last.err = NoErr
    /\ last.id \in ActiveEntries
    /\ tasks[entries[last.id].taskID].status = StatusDoing

\* C5: StopTimeTracking with no active entry fails with an error that is
\* ErrNoActiveTimeEntry and changes no time entry and no task.
StopWithoutActiveFails ==
    [][(ActiveEntries = {} /\ StopCommand)
          => (ErrorsIs(last'.err, ErrNoActiveTimeEntry) /\ TablesUnchanged)]_vars

StopWithoutActiveFailed ==
    /\ last.op = "StopTimeTracking"
    /\ ErrorsIs(last.err, ErrNoActiveTimeEntry)
    /\ DOMAIN entries # {}

\* C6: after a StopTimeTracking that succeeds the entry that was active has an
\* end time and its persisted duration, as scanTimeEntry reads it back, is
\* end - start (the clock not having gone back since the start); the
\* active-entry query then fails with ErrNoActiveTimeEntry, and an entry becomes
\* active again only by a StartTimeTracking that succeeds.
StopEndsTheActiveEntry ==
    [][/\ Stopped =>
            /\ \A e \in ActiveEntries :
                  /\ entries'[e].end # Nil
                  /\ ScanDuration(entries'[e].duration) = entries'[e].end - entries'[e].start
            /\ TimeEntryRepoGetActive(Store') =
                  {[entry |-> NoEntry, err |-> Err(ErrNoActiveTimeEntry)]}
       /\ (ActiveEntries = {} /\ ActiveEntries' # {})
            => (last'.op = "StartTimeTracking" /\ last'.err = NoErr)]_vars

StopSucceededLater ==
    /\ last.op = "StopTimeTracking"
    /\ last.err = NoErr
    /\ entries[last.id].end > entries[last.id].start
    /\ ActiveEntries = {}

\* C7: a StopTimeTracking that succeeds changes the active entry only, and only
\* its end time and duration: every task (the entry's task with its status
\* doing among them), every project and every other entry stay as they were.
StopChangesOnlyTheActiveEntry ==
    [][Stopped =>
          /\ UNCHANGED <<projects, tasks>>
          /\ DOMAIN entries' = DOMAIN entries
          /\ Cardinality(ActiveEntries) = 1
          /\ \A e \in DOMAIN entries \ ActiveEntries : entries'[e] = entries[e]
          /\ \A e \in ActiveEntries :
                /\ last'.id = e
                /\ entries'[e].taskID = entries[e].taskID
                /\ entries'[e].projectID = entries[e].projectID
                /\ entries'[e].start = entries[e].start]_vars

StopSucceededBesideAnotherEntry ==
    /\ last.op = "StopTimeTracking"
    /\ last.err = NoErr
    /\ \E e \in DOMAIN entries : e # last.id /\ entries[e] # entries[last.id]
    /\ tasks[entries[last.id].taskID].status = StatusDoing

\* The step is a DeleteProject command with input in that succeeded.
DeletedProject(in) ==
    /\ last'.op = "DeleteProject" /\ last'.err = NoErr
    /\ Command(Call("DeleteProject", in, "delete"))

\* Task x has a task of the set A above it in the tree T (n bounds the climb).
RECURSIVE IsBelow(_, _, _, _)
IsBelow(T, x, A, n) ==
    /\ n > 0
    /\ T[x].parentID \in DOMAIN T
    /\ (T[x].parentID \in A \/ IsBelow(T, T[x].parentID, A, n - 1))

TasksOf(T, p) == {x \in DOMAIN T : T[x].projectID = p}

\* No task of project P and no time entry of such a task is left.
ProjectTasksRemoved(in) ==
    /\ TasksOf(tasks', in.id) = {}
    /\ \A e \in DOMAIN entries' : entries'[e].taskID \notin TasksOf(tasks, in.id)

\* C8 as stated: deleting project P removes every task of P and every time entry
\* of those tasks, and leaves every task of another project or of no project in
\* the store, unchanged.
DeleteProjectKeepsOtherTasks ==
    [][\A in \in IdInputs(ProjIds) :
          DeletedProject(in) =>
            /\ ProjectTasksRemoved(in)
            /\ \A x \in DOMAIN tasks \ TasksOf(tasks, in.id) :
                  x \in DOMAIN tasks' /\ tasks'[x] = tasks[x]]_vars

\* What DeleteProject does keep: every task of another project or of no project
\* that has no task of P above it in the task tree (a subtask goes with its
\* parent, whatever its own project).
DeleteProjectKeepsUnrelatedTasks ==
    [][\A in \in IdInputs(ProjIds) :
          DeletedProject(in) =>
            /\ ProjectTasksRemoved(in)
            /\ \A x \in DOMAIN tasks \ TasksOf(tasks, in.id) :
                  ~IsBelow(tasks, x, TasksOf(tasks, in.id), Cardinality(DOMAIN tasks))
                  => (x \in DOMAIN tasks' /\ tasks'[x] = tasks[x])]_vars

\* Following parent references from task x leads back to x.
OnParentCycle(T, x) == IsBelow(T, x, {x}, Cardinality(DOMAIN T))

\* C9: after any sequence of task creations and updates no task is above itself
\* in the task tree (an update that would close a cycle being rejected with
\* ErrCircularDependency).
NoParentCycle == \A x \in DOMAIN tasks : ~OnParentCycle(tasks, x)

ProjectNamesUnique ==
    \A p, q \in DOMAIN projects : p # q => projects[p].name # projects[q].name

\* Call l is about to look its name up, or to write it, and another project holds it.
NameHeldByAnother(l) ==
    \/ /\ l.op = "CreateProject"
       /\ l.pc \in {"getByName", "create"}
       /\ l.in.name # ""
       /\ \E q \in DOMAIN projects : projects[q].name = l.in.name
    \/ /\ l.op = "UpdateProject"
       /\ l.pc \in {"getByName", "update"}
       /\ IsSome(l.in.name)
       /\ \E q \in DOMAIN projects \ {l.in.id} : projects[q].name = Val(l.in.name)

\* C10: whatever CreateProject and UpdateProject calls ran, one after another or
\* interleaved, no two stored projects have the same name; a create with, or a
\* rename to, a name another project holds returns an error that is
\* ErrDuplicateProject and changes no table.
DuplicateNameRejected ==
    [][/\ ProjectNamesUnique'
       /\ \A p \in Procs :
             (NameHeldByAnother(calls[p]) /\ ProcStep(p))
             => /\ calls'[p].pc = "done"
                /\ ErrorsIs(calls'[p].err, ErrDuplicateProject)
                /\ TablesUnchanged]_vars

\* One call was stopped by the service's lookup, another by the UNIQUE constraint.
DuplicateNameWasRejected ==
    \E p, q \in Procs :
        /\ calls[p].pc = "done" /\ calls[p].op = "CreateProject"
        /\ calls[p].err = Err(ErrDuplicateProject)
        /\ calls[q].pc = "done" /\ calls[q].op = "UpdateProject"
        /\ calls[q].err = Wrap("failed to update project", Err(ErrDuplicateProject))
        /\ Cardinality(DOMAIN projects) = 2

\* C11: after any sequence of project status changes a project has an archive
\* time if and only if its status is archived.
ArchivedAtIffArchived ==
    \A p \in DOMAIN projects :
        (projects[p].archivedAt # Nil) <=> (projects[p].status = ProjectStatusArchived)

\* The entries a report lists, and the sum of one grouping's totals.
ReportEntries == {report.entries[i] : i \in DOMAIN report.entries}

RECURSIVE SumTotals(_)
SumTotals(groups) ==
    IF DOMAIN groups = {}
    THEN 0
    ELSE LET k == CHOOSE x \in DOMAIN groups : TRUE
         IN  groups[k].total + SumTotals([x \in DOMAIN groups \ {k} |-> groups[x]])

\* The groups of a grouping that hold the entry, counted with the entry's repetitions.
GroupsHolding(groups, e) ==
    {<<k, i>> \in (DOMAIN groups) \X (1..MaxEntries) :
        i \in DOMAIN groups[k].entries /\ groups[k].entries[i] = e}

Additive(groups) ==
    /\ report.total = SumTotals(groups)
    /\ \A e \in ReportEntries : Cardinality(GroupsHolding(groups, e)) = 1

\* C12: a report's total duration is the sum of its per-day totals, of its per-task totals
\* and of its per-project totals, and each entry of the report is in exactly one group of
\* each grouping.
ReportTotalsAdditive ==
    /\ Additive(report.byDay)
    /\ Additive(report.byTask)
    /\ Additive(report.byProject)

\* A report of two entries that share a group, the later of them with time on it.
ReportWithSharedGroup ==
    /\ Len(report.entries) = 2
    /\ report.total = 2
    /\ \E k \in DOMAIN report.byDay : Len(report.byDay[k].entries) = 2
    /\ \E k \in DOMAIN report.byTask : Len(report.byTask[k].entries) = 2
    /\ Cardinality(DOMAIN report.byDay) = 1

\* What the window of a report selects: the entries started in [startDate, endDate).
StartedInWindow(w) ==
    {e \in DOMAIN entries : w.startDate <= entries[e].start /\ entries[e].start < w.endDate}

RECURSIVE SumDurations(_)
SumDurations(es) ==
    IF es = {}
    THEN 0
    ELSE LET e == CHOOSE x \in es : TRUE
         IN  (IF entries[e].end = Nil THEN now - entries[e].start ELSE entries[e].duration)
                + SumDurations(es \ {e})

\* C13: the report of a window holds exactly the entries started in the window, ended or
\* not, and counts a running entry as the time since its start.
ReportHoldsEntriesStartedInWindow ==
    [][\A w \in Windows :
        (last'.op = "GenerateReport" /\ GenerateReport(w)) =>
            /\ ReportEntries' = StartedInWindow(w)
            /\ report'.total = SumDurations(StartedInWindow(w))]_vars

\* A submit of the task form while its title is empty or all spaces.
BlankSubmit ==
    /\ app.currentView = TaskFormView
    /\ TrimSpace(app.taskForm.titleInput) = NoText
    /\ KeyPress("ctrl+s")

TitleRequiredMsg == ErrorMsg(Err(ErrTitleRequired))

\* C14: a submit of the task form with an empty or all-space title writes no task, issues
\* no command on the repository (the one thing it puts in flight is the validation
\* message), leaves TaskForm the current view and the form as it was; and the validation
\* message, once received, sets the error banner.
BlankSubmitRejected ==
    [][/\ BlankSubmit =>
            /\ TablesUnchanged
            /\ nextId' = nextId
            /\ heap' = heap
            /\ app' = app
            /\ cmds' = cmds (+) SetToBag({TitleRequiredMsg})
       /\ (app.currentView = TaskFormView /\ DeliverOf(TitleRequiredMsg)) =>
            /\ app'.error = Err(ErrTitleRequired)
            /\ app'.currentView = TaskFormView
            /\ app'.taskForm = app.taskForm]_vars

\* The form on screen with an all-space title and the validation banner.
BlankSubmitWasRejected ==
    /\ app.currentView = TaskFormView
    /\ app.taskForm.titleInput = <<Space>>
    /\ app.error = Err(ErrTitleRequired)

\* C15: when the save command of a task submitted from a new-task form has run, the store
\* holds a task with the submitted title and the status todo.
SubmittedTaskStored ==
    [][\A c \in BagToSet(cmds) :
        (c.kind = "saveTask" /\ RunEffectOf(c)) =>
            \E x \in DOMAIN tasks' :
                /\ tasks'[x].title = heap[c.ref].title
                /\ tasks'[x].status = StatusTodo]_vars

\* A load message the current view did not ask for.
StaleLoad(msg) ==
    \/ msg.kind = "TaskListLoadedMsg" /\ app.currentView # TaskListView
    \/ msg.kind = "ProjectListLoadedMsg" /\ app.currentView # ProjectListView

\* C16: a task-list or project-list load message received while another view is the
\* current one changes neither the current view nor the Dashboard's state.
StaleLoadIgnored ==
    [][\A msg \in BagToSet(cmds) :
        (StaleLoad(msg) /\ DeliverOf(msg)) =>
            /\ app'.currentView = app.currentView
            /\ app'.dashboard = app.dashboard]_vars

\* Nothing is in flight, the store has a task and the task list never got one: every
\* task-list load was received by another view, the Dashboard the last of them, with its
\* selection off the first item.
StaleLoadWasIgnored ==
    /\ running
    /\ cmds = EmptyBag
    /\ tasks # <<>>
    /\ app.taskList.tasks = <<>>
    /\ app.currentView = DashboardView
    /\ app.dashboard.selectedIndex = 1

\* C17: an ErrorMsg, once received, sets the error banner to its text and changes nothing
\* else of the model: not the current view, no sub-model, no task object.
ErrorMsgSetsBanner ==
    [][\A msg \in BagToSet(cmds) :
        (msg.kind = "ErrorMsg" /\ DeliverOf(msg)) =>
            /\ app' = [app EXCEPT !.error = msg.text]
            /\ heap' = heap
            /\ TablesUnchanged]_vars

\* The banner of a save that failed.
SaveFailureShown == app.error = Wrap("Failed to save task", Err(ErrTaskNotFound))

\* What the back key is to do: Dashboard is the current view, both banners are empty and
\* the full reload is issued.
BackEffect ==
    /\ app'.currentView = DashboardView
    /\ app'.error = NoText
    /\ app'.success = NoText
    /\ CopiesIn(loadTasks, cmds') = CopiesIn(loadTasks, cmds) + 1
    /\ CopiesIn(loadProjects, cmds') = CopiesIn(loadProjects, cmds) + 1

\* C18: in every view the back key makes Dashboard the current view, clears the error
\* and the success banner and issues the full reload: in no state can the back key be
\* handled with another outcome.
BackReloadsDashboard == ~ENABLED (KeyPress("esc") /\ ~BackEffect)

GlobalKeys == QuitKeys \cup HelpKeys \cup BackKeys \cup RefreshKeys

\* What a global key is to do: the root handles it, and quit issues the program's exit
\* and changes nothing else.
GlobalKeyEffect(k) ==
    /\ RootHandles(app, KeyMsg(k))
    /\ k \in QuitKeys =>
            /\ app' = app
            /\ cmds' = cmds (+) SetToBag({QuitMsg})
            /\ TablesUnchanged

\* C19: in every view the keys quit, help, back and refresh are handled by the root and
\* never reach the sub-model of the current view, and quit issues the program's exit and
\* nothing else: in no state can a global key be handled with another outcome.
GlobalKeysHandledByRoot ==
    \A k \in GlobalKeys : ~ENABLED (KeyPress(k) /\ ~GlobalKeyEffect(k))

\* C20: the program starts in Dashboard, and a Dashboard action received in Dashboard
\* switches to TaskList with a load of the tasks issued (tasks), to ProjectList with a
\* load of the projects issued (projects), to TaskForm with a fresh form bound to no
\* task and nothing issued (new_task).
DashboardActionsSwitchView ==
    /\ app.currentView = DashboardView
    /\ [][\A msg \in BagToSet(cmds) :
            (/\ msg.kind = "DashboardActionMsg"
             /\ app.currentView = DashboardView
             /\ DeliverOf(msg)) =>
                /\ msg.action = "tasks" =>
                        /\ app'.currentView = TaskListView
                        /\ CopiesIn(loadTasks, cmds') = CopiesIn(loadTasks, cmds) + 1
                /\ msg.action = "projects" =>
                        /\ app'.currentView = ProjectListView
                        /\ CopiesIn(loadProjects, cmds') = CopiesIn(loadProjects, cmds) + 1
                /\ msg.action = "new_task" =>
                        /\ app'.currentView = TaskFormView
                        /\ app'.taskForm.task = Nil
                        /\ ~app'.taskForm.isEditing
                        /\ app'.taskForm.titleInput = NoText
                        /\ app'.taskForm.focusedField = 0
                        /\ BagCardinality(cmds') = BagCardinality(cmds) - 1]_vars

\* The form Dashboard's new_task opened, and the project list with its load in flight.
NewTaskFormOpened ==
    /\ app.currentView = TaskFormView
    /\ app.dashboard.selectedIndex = 3
    /\ app.taskForm.task = Nil
    /\ ~app.taskForm.isEditing

\* C21: the select action handled in TaskList makes TaskDetail the current view, bound
\* to the action's task, which the list holds; and whenever TaskDetail is the current
\* view, the task it is bound to is not nil and is the selected task of the root.
DetailBoundToSelectedTask ==
    app.currentView = TaskDetailView =>
        /\ app.taskDetail.task # Nil
        /\ app.taskDetail.task = app.selectedTask

\* The commands of one kind in flight.
Pending(kind, c) ==
    BagCardinality([i \in {j \in BagToSet(c) : j.kind = kind} |-> c[i]])

\* C23 as stated: the delete action handled in TaskList or in TaskDetail leaves the
\* current view as it is and issues one delete command, for the action's task, and one
\* load of the tasks.
DeleteKeepsView ==
    [][\A msg \in BagToSet(cmds) :
        (/\ msg.kind = "TaskActionMsg"
         /\ msg.action = "delete"
         /\ app.currentView \in {TaskListView, TaskDetailView}
         /\ DeliverOf(msg)) =>
            /\ app'.currentView = app.currentView
            /\ Pending("deleteTask", cmds') = Pending("deleteTask", cmds) + 1
            /\ \E c \in BagToSet(cmds') :
                    c.kind = "deleteTask" /\ heap'[c.ref] = heap[msg.ref]
            /\ Pending("loadTasks", cmds') = Pending("loadTasks", cmds) + 1]_vars

\* C23: the delete action handled in TaskList or in TaskDetail makes TaskList the
\* current view (it stays, or TaskDetail is left) and issues one delete command, for the
\* action's task, and one load of the tasks.
DeleteReturnsToList ==
    [][\A msg \in BagToSet(cmds) :
        (/\ msg.kind = "TaskActionMsg"
         /\ msg.action = "delete"
         /\ app.currentView \in {TaskListView, TaskDetailView}
         /\ DeliverOf(msg)) =>
            /\ app'.currentView = TaskListView
            /\ Pending("deleteTask", cmds') = Pending("deleteTask", cmds) + 1
            /\ \E c \in BagToSet(cmds') :
                    c.kind = "deleteTask" /\ heap'[c.ref] = heap[msg.ref]
            /\ Pending("loadTasks", cmds') = Pending("loadTasks", cmds) + 1]_vars

\* The task of the detail view is being deleted and the list is the current view again.
DeletedFromDetail ==
    /\ app.currentView = TaskListView
    /\ app.taskDetail.task # Nil
    /\ app.taskDetail.task = app.selectedTask
    /\ BagIn(deleteTask(app.taskDetail.task), cmds)
    /\ BagIn(loadTasks, cmds)

\* C24: the task a pending save is to persist keeps the value it had when the save was
\* issued: no step other than the run of the save changes the value of a task object a
\* pending save refers to, so that each pending save finds its value in the next state.
SavePersistsIssuedValue ==
    [][\A c \in BagToSet(cmds) :
        (c.kind = "saveTask" /\ running' /\ ~RunEffectOf(c)) =>
            \E d \in BagToSet(cmds') : d.kind = "saveTask" /\ heap'[d.ref] = heap[c.ref]]_vars

\* The tasks the list view holds, by value.
ListedTasks == [i \in DOMAIN app.taskList.tasks |-> heap[app.taskList.tasks[i]]]

\* C30: the load issued together with a delete or a save sees the store after that
\* change: once every command has run and every message was received, the tasks the
\* TaskList view holds are the tasks of the store.
ReloadSeesMutation ==
    (running /\ cmds = EmptyBag /\ app.currentView = TaskListView) =>
        ListedTasks = TaskRepoList(Store, NoId)

\* A command has been issued and has not run.
CommandPending == \E c \in BagToSet(cmds) : c.kind \in CommandKinds

\* C25: every command issued runs to its end and has one message received: only the
\* run of a command takes it from the commands in flight, the run puts one message in
\* its place, and when the user stops pressing keys the commands all come to run.
EffectsAlwaysDeliver ==
    /\ [][/\ RunEffect => BagCardinality(cmds') = BagCardinality(cmds)
          /\ ~RunEffect =>
                \A k \in CommandKinds : Pending(k, cmds') >= Pending(k, cmds)]_vars
    /\ []<>(~CommandPending) \/ []<><<Key(LiveKeys)>>_vars

\* C29: when the update of the task's status inside StartTimeTracking fails, the call
\* still returns the entry it created, with no error, and that entry is the active
\* entry of the store.
FailedStatusUpdateKeepsEntry ==
    [][\A p \in Procs :
        (/\ calls[p].op = "StartTimeTracking"
         /\ calls[p].pc = "updateTask"
         /\ TaskRepoUpdate(Store, TaskStart(calls[p].task)).err # NoErr
         /\ ProcStep(p)) =>
            /\ calls'[p].pc = "done"
            /\ calls'[p].err = NoErr
            /\ calls'[p].entry = calls[p].entry
            /\ calls'[p].entry.id \in ActiveEntries']_vars

\* The tags of the stored task x, as GetByID reads them.
TagsOf(x) == UnmarshalTags(tasks[x].tags)

\* C26: whatever operations set or changed the tags of a task (AddTag, RemoveTag,
\* CreateTask, UpdateTask), no task holds a tag twice.
TagsHaveNoDuplicate ==
    \A x \in DOMAIN tasks :
        \A i, j \in DOMAIN TagsOf(x) : TagsOf(x)[i] = TagsOf(x)[j] => i = j

\* C27: a task that CreateTask creates for a caller who gives no priority has the
\* status todo, no completion time and the priority normal.
CreatedTaskIsNormalTodo ==
    [][\A in \in TaggedTasks :
        (/\ "priority" \notin DOMAIN in
         /\ last'.op = "CreateTask"
         /\ CreateTask({in})
         /\ last'.err = NoErr) =>
            /\ tasks'[last'.id].status = StatusTodo
            /\ tasks'[last'.id].completedAt = Nil
            /\ tasks'[last'.id].priority = PriorityNormal]_vars

\* C28: a note link that the repository's Update wrote is read back by GetByID: the
\* task has the flag set, and the id and the path of the note.
LinkedNoteIsReadBack ==
    [][\A in \in NoteInputs :
        (/\ last'.op = "LinkNote"
         /\ Command(Call("LinkNote", in, "getByID"))
         /\ last'.err = NoErr) =>
            LET r == TaskRepoGetByID(Store', in.id)
            IN  /\ r.err = NoErr
                /\ r.task.hasNote
                /\ r.task.noteID = Some(in.noteID)
                /\ r.task.notePath = Some(NotePath(in.noteID))]_vars

\* Two task values with the same id, status and creation time.
SameTask(a, b) == a.id = b.id /\ a.status = b.status /\ a.createdAt = b.createdAt

\* The form in editing mode on a task.
EditingForm(m) == m.currentView = TaskFormView /\ m.taskForm.isEditing /\ m.taskForm.task # Nil

UpdatesPending(c) ==
    BagCardinality([i \in {j \in BagToSet(c) :
                              j.kind = "TaskActionMsg" /\ j.action = "update"} |-> c[i]])

\* The task the toggle key acts on in model m: the selected one of the list, the one of
\* the detail view, or none.
ToggledTask(m) ==
    IF m.currentView = TaskListView /\ m.taskList.selectedIndex < Len(m.taskList.tasks)
    THEN m.taskList.tasks[m.taskList.selectedIndex + 1]
    ELSE IF m.currentView = TaskDetailView THEN m.taskDetail.task
    ELSE Nil

\* C31: the toggle key in the task list and in the task detail view makes the selected
\* task in memory todo when it was done and done otherwise, before any effect runs, and
\* puts one update action for that task in flight; and for an update action it receives,
\* the controller issues a save of the task.
ToggleThenSave ==
    [][/\ (ToggledTask(app) # Nil /\ KeyPress("t")) =>
            /\ TablesUnchanged
            /\ heap'[ToggledTask(app')].id = heap[ToggledTask(app)].id
            /\ heap'[ToggledTask(app')].status =
                    IF heap[ToggledTask(app)].status = StatusDone THEN StatusTodo
                    ELSE StatusDone
            /\ UpdatesPending(cmds') = UpdatesPending(cmds) + 1
            /\ \E msg \in BagToSet(cmds') :
                    /\ msg.kind = "TaskActionMsg" /\ msg.action = "update"
                    /\ msg.ref = ToggledTask(app')
       /\ \A msg \in BagToSet(cmds) :
            (msg.kind = "TaskActionMsg" /\ msg.action = "update" /\ DeliverOf(msg)) =>
                /\ Pending("saveTask", cmds') = Pending("saveTask", cmds) + 1
                /\ \E c \in BagToSet(cmds') :
                        c.kind = "saveTask" /\ heap'[c.ref] = heap[msg.ref]]_vars

\* The selection of the view on screen and the length of what it selects from.
ViewIndex(m) ==
    CASE m.currentView = DashboardView -> m.dashboard.selectedIndex
      [] m.currentView = TaskListView -> m.taskList.selectedIndex
      [] m.currentView = ProjectListView -> m.projectList.selectedIndex
      [] OTHER -> 0

ViewLen(m) ==
    CASE m.currentView = DashboardView -> Len(MenuActions)
      [] m.currentView = TaskListView -> Len(m.taskList.tasks)
      [] m.currentView = ProjectListView -> Len(m.projectList.projects)
      [] OTHER -> 0

\* The number of messages in flight with the property Test.
Matching(c, Test(_)) == BagCardinality([i \in {j \in BagToSet(c) : Test(j)} |-> c[i]])

\* The selections are inside their lists.
SelectionInRange ==
    /\ app.dashboard.selectedIndex \in 0..(Len(MenuActions) - 1)
    /\ app.taskList.tasks # <<>> =>
            app.taskList.selectedIndex \in 0..(Len(app.taskList.tasks) - 1)
    /\ app.projectList.projects # <<>> =>
            app.projectList.selectedIndex \in 0..(Len(app.projectList.projects) - 1)

\* What the edit key and the delete key would emit now carries the selected element.
EditCarriesSelected ==
    /\ (app.currentView = TaskListView /\ app.taskList.tasks # <<>>) =>
            LET ref == app.taskList.tasks[app.taskList.selectedIndex + 1]
            IN  /\ TaskListUpdate(app.taskList, heap, KeyMsg("e"), now).cmds =
                        <<TaskActionMsg("edit", ref)>>
                /\ TaskListUpdate(app.taskList, heap, KeyMsg("d"), now).cmds =
                        <<TaskActionMsg("delete", ref)>>
    /\ (app.currentView = ProjectListView /\ app.projectList.projects # <<>>) =>
            ProjectListUpdate(app.projectList, KeyMsg("e"))[2] =
                <<ProjectActionMsg("edit",
                    Some(app.projectList.projects[app.projectList.selectedIndex + 1]))>>

\* C32: in the task list, the project list and the Dashboard the selection index is at
\* least 0 and less than the length of the list whenever the list is not empty; up at
\* index 0 and down at the last index leave it where it is; and the action a key emits
\* (select, edit, delete) carries the element at the index.
SelectionStaysInList ==
    /\ []SelectionInRange
    /\ []EditCarriesSelected
    /\ [][/\ (ViewLen(app) > 0 /\ ViewIndex(app) = 0 /\ KeyPress("up")) =>
                ViewIndex(app') = 0
          /\ (ViewLen(app) > 0 /\ ViewIndex(app) = ViewLen(app) - 1 /\ KeyPress("down")) =>
                ViewIndex(app') = ViewIndex(app)
          /\ (app.currentView = TaskListView /\ ViewLen(app) > 0 /\ KeyPress("enter")) =>
                LET task == heap[app.taskList.tasks[app.taskList.selectedIndex + 1]]
                    Carries(j) == /\ j.kind = "TaskActionMsg" /\ j.action = "select"
                                  /\ j.ref # Nil
                                  /\ heap[j.ref] = task
                    Carried(j) == /\ j.kind = "TaskActionMsg" /\ j.action = "select"
                                  /\ j.ref # Nil
                                  /\ heap'[j.ref] = task
                IN  Matching(cmds', Carried) = Matching(cmds, Carries) + 1
          /\ (app.currentView = ProjectListView /\ ViewLen(app) > 0 /\ KeyPress("enter")) =>
                LET project == app.projectList.projects[app.projectList.selectedIndex + 1]
                    Carries(j) == j = ProjectActionMsg("select", Some(project))
                IN  Matching(cmds', Carries) = Matching(cmds, Carries) + 1
          /\ (app.currentView = DashboardView /\ KeyPress("enter")) =>
                LET item == MenuActions[app.dashboard.selectedIndex + 1]
                    Carries(j) == j = DashboardActionMsg(item)
                IN  Matching(cmds', Carries) = Matching(cmds, Carries) + 1]_vars

\* The task list after one of two tasks was deleted and the list refreshed, with the one
\* task left selected and its select action in flight.
SelectedAfterShrink ==
    /\ app.currentView = TaskListView
    /\ nextId.task = 3
    /\ Cardinality(DOMAIN tasks) = 1
    /\ Len(app.taskList.tasks) = 1
    /\ app.taskList.selectedIndex = 0
    /\ \E msg \in BagToSet(cmds) :
            /\ msg.kind = "TaskActionMsg" /\ msg.action = "select"
            /\ msg.ref = app.taskList.tasks[1]

\* C33: a TaskFormSubmitMsg received while the task form is the current view makes the
\* task list the current view and issues one save of the submitted task and one load of
\* the tasks, and nothing else; any other message received in the task form, and any key
\* but back, help and quit, leaves the task form the current view.
SubmitReturnsToList ==
    [][/\ \A msg \in BagToSet(cmds) :
            (app.currentView = TaskFormView /\ DeliverOf(msg)) =>
                IF msg.kind = "TaskFormSubmitMsg"
                THEN /\ app'.currentView = TaskListView
                     /\ Pending("saveTask", cmds') = Pending("saveTask", cmds) + 1
                     /\ \E c \in BagToSet(cmds') :
                            c.kind = "saveTask" /\ heap'[c.ref] = heap[msg.ref]
                     /\ Pending("loadTasks", cmds') = Pending("loadTasks", cmds) + 1
                     /\ BagCardinality(cmds') = BagCardinality(cmds) + 1
                ELSE app'.currentView = TaskFormView
       /\ \A k \in FormKeys \ (BackKeys \cup HelpKeys \cup QuitKeys) :
            (app.currentView = TaskFormView /\ KeyPress(k)) =>
                app'.currentView = TaskFormView]_vars

\* The task list on screen after a submit, with the save of the submitted task and the
\* load of the tasks in flight.
SubmittedFormLeft ==
    /\ app.currentView = TaskListView
    /\ app.taskForm.titleInput = <<"a">>
    /\ BagIn(loadTasks, cmds)
    /\ \E c \in BagToSet(cmds) : c.kind = "saveTask" /\ heap[c.ref].title = <<"a">>

\* A load of tasks is running or its message waits.
TaskLoadOutstanding ==
    \E c \in BagToSet(cmds) : c.kind \in {"loadTasks", "TaskListLoadedMsg"}

\* C34: after a project was selected in the project list, once no load of tasks is
\* running and no message of one waits, the task list holds only tasks of that project.
ProjectListShowsItsTasks ==
    (/\ app.currentView = TaskListView
     /\ IsSome(app.selectedProject)
     /\ ~TaskLoadOutstanding) =>
        \A i \in DOMAIN app.taskList.tasks :
            heap[app.taskList.tasks[i]].projectID = Val(app.selectedProject).id

\* The due date input of form m holds a text that is no date.
MalformedDueDate(m) ==
    /\ TrimSpace(m.dueDateInput) # NoText
    /\ ParseDate(TrimSpace(m.dueDateInput)).err # NoErr

\* C35: a submit of the task form in editing mode that is rejected for a malformed due
\* date leaves the title, the description, the tags and the changelist of the task the
\* form is bound to as they were.
RejectedSubmitKeepsTask ==
    [][\A k \in SubmitKeys :
         (/\ EditingForm(app)
          /\ TrimSpace(app.taskForm.titleInput) # NoText
          /\ MalformedDueDate(app.taskForm)
          /\ KeyPress(k)) =>
             LET old == heap[app.taskForm.task]
                 new == heap'[app'.taskForm.task]
             IN  /\ new.title = old.title
                 /\ new.description = old.description
                 /\ new.tags = old.tags
                 /\ new.changelist = old.changelist]_vars

\* The tags, the changelist and the due date that the inputs of form m hold.
FormTags(m) == TrimmedParts(Split(TrimSpace(m.tagsInput), ","))
FormChangelist(m) == TrimSpace(m.changelistInput)
FormDueDate(m) ==
    IF TrimSpace(m.dueDateInput) = NoText THEN Nil
    ELSE ParseDate(TrimSpace(m.dueDateInput)).start

\* C36: a valid submit of the task form in editing mode puts a TaskFormSubmitMsg in
\* flight whose task has the tags, the changelist and the due date of the inputs; an
\* emptied input gives no tags, no changelist, no due date.
SubmittedTaskHasFormFields ==
    [][\A k \in SubmitKeys :
         (/\ EditingForm(app)
          /\ TrimSpace(app.taskForm.titleInput) # NoText
          /\ ~MalformedDueDate(app.taskForm)
          /\ KeyPress(k)) =>
             \A msg \in BagToSet(cmds') :
                 (msg.kind = "TaskFormSubmitMsg" /\ ~BagIn(msg, cmds)) =>
                     /\ heap'[msg.ref].tags = FormTags(app.taskForm)
                     /\ heap'[msg.ref].changelist = FormChangelist(app.taskForm)
                     /\ heap'[msg.ref].dueDate = FormDueDate(app.taskForm)]_vars

\* C38: StartTimeTracking creates a time entry only when its query of the active entry
\* reported that none is active: a call whose query fails with a storage failure returns
\* without going on, and a call made while an entry is active adds no entry.
StartNeedsNoActiveReport ==
    /\ [](\A in \in StartInputs :
            in.taskID # NoId =>
                LET l == Call("StartTimeTracking", in, "getActiveFaulty")
                IN  StartAfterGetActive(Store, l, StorageFailure).loc.pc = "done")
    /\ [][(ActiveEntries # {} /\ StartUnderFault) => entries' = entries]_vars

\* C39: deleting a project deletes no time entry whose task is left in the store: an
\* entry started while its task was in the project is still there, unchanged, when the
\* task was moved to another project, or to none, before the project was deleted.
DeleteProjectKeepsEntriesOfKeptTasks ==
    [][\A in \in IdInputs(ProjIds) :
          DeletedProject(in) =>
            \A e \in DOMAIN entries :
                entries[e].taskID \in DOMAIN tasks' =>
                    (e \in DOMAIN entries' /\ entries'[e] = entries[e])]_vars

\* The views the program shows.
ViewsEntered ==
    {DashboardView, TaskListView, TaskDetailView, TaskFormView, ProjectListView, HelpView}

\* The task a reference of heap H points to, if any.
TaskAt(H, ref) == IF ref = Nil THEN None ELSE Some(H[ref])

\* The sub-models of model m, each task they hold in place of its reference.
SubModels(m, H) ==
    [dashboard |-> m.dashboard,
     projectList |-> m.projectList,
     taskDetail |-> [m.taskDetail EXCEPT !.task = TaskAt(H, @)],
     taskForm |-> [m.taskForm EXCEPT !.task = TaskAt(H, @)],
     taskList |-> [m.taskList EXCEPT !.tasks = [i \in DOMAIN @ |-> H[@[i]]]]]

DetailStatusIsStored ==
    (/\ app.currentView = TaskDetailView
     /\ app.taskDetail.task # Nil
     /\ cmds = EmptyBag) =>
        LET task == heap[app.taskDetail.task]
        IN  task.id \in DOMAIN tasks => task.status = tasks[task.id].status

====
